---- MODULE Spec2Model ----
(***************************************************************************)
(* A model of the graph-structured constraint workbench of fronx/modeler.  *)
(*                                                                         *)
(* Every method of the Workbench classes is a pure operator from a         *)
(* workbench value (and the call's arguments) to a result record           *)
(* [wb, ok, ...]: wb is the workbench after the call, ok = FALSE says the  *)
(* call raised.  The actions apply these operators to workbench objects    *)
(* held in a small heap (mem), so that aliasing between a workbench and    *)
(* its fork is something the model can express.                            *)
(*                                                                         *)
(* Two implementations of the core Workbench are modelled and told apart   *)
(* by impl: "s0" is artifacts/inception/gpt5/sketch-gpt5-0.py and "s3" is  *)
(* artifacts/gpt5/sketch-gpt5-3.py.  The hybrid workbenches of             *)
(* gpt5-synthesis-2.py ("syn2") and gpt5-synthesis-3.py ("syn3") are       *)
(* modelled by the H-prefixed operators.                                   *)
(*                                                                         *)
(* Numbers are Python floats in the source; here they are integers (a      *)
(* fixed-point unit), and a constraint strength s stands for s/2, so the   *)
(* strengths are 0, 1/2 and 1.                                             *)
(***************************************************************************)
EXTENDS Integers, Sequences, FiniteSets, TLC

VARIABLES
    mem,    \* the heap: workbench objects (sid, ver) and their stores (heap)
    impl,   \* which core implementation runs: "s0" or "s3"
    last,   \* what the last call was and how it ended
    budget, \* number of calls the run may still make (bounds the exploration)
    hy,     \* the hybrid workbench (HybridWB of syn2 / syn3)
    himpl   \* which hybrid implementation runs: "syn2" or "syn3"

vars == <<mem, impl, last, budget, hy, himpl>>

-----------------------------------------------------------------------------
(* Bounds of the exploration. *)

MaxOps == 2          \* calls per run of the core workbench
MaxForkOps == 3      \* calls per run with a fork
MaxBatchLen == 3      \* lines per command batch
MaxCoffeeOps == 3     \* calls per run on the coffee chain
MaxBlendOps == 2      \* calls per run on one attribute and one constraint
MaxBlendVal == 2      \* numbers and interval bounds are 0, 2, .., 2 * MaxBlendVal
MaxBranchOps == 3     \* calls per run with branch hypotheses
MaxMatchEdges == 2    \* edges of a graph handed to the matcher
MaxStaleOps == 4      \* calls per run with a rule that stops matching
MaxStoreOps == 3      \* calls per run that create, snapshot and revert
MaxGuardOps == 3      \* calls per run on the workbench with guarded constraints
MaxExplainOps == 3    \* calls per run that change the store and explain a path
MaxWeightedOps == 2   \* calls per run on candidates collapsed by weighted mean
MaxCands == 2         \* candidates recorded before the run starts
MaxContextOps == 3    \* calls per run that fork and collapse by context
MaxEvents == 3        \* events in the history before the run starts
MaxIntervalOps == 3   \* calls per run that store and blend Intervals
MaxBound == 2         \* Interval bounds given to the constructor are -2, 0, .., 2 * MaxBound
MaxFixOps == 3        \* calls per run of ticks, queries and writes around a fixpoint
MaxChainOps == 5      \* calls per run on a chain of constraints
MaxRuleOps == 2       \* calls per run of define_rule and run_rules
MaxRuleEdges == 2     \* causes edges of the graph the rules are run on
MaxRoundOps == 4      \* calls per run of snapshot, writes and revert
MaxPathOps == 3       \* calls per run that create entities and address them by path

-----------------------------------------------------------------------------
(* Values: Unknown, numbers, Intervals, and non-numeric values (text).     *)
(* None is Python's None: "no value" from val() and "no result" from the   *)
(* evaluator.                                                              *)

Unknown == [k |-> "unknown", lo |-> 0, hi |-> 0]
None == [k |-> "none", lo |-> 0, hi |-> 0]
Text == [k |-> "text", lo |-> 0, hi |-> 0]
Num(x) == [k |-> "num", lo |-> x, hi |-> x]

\* An Interval that keeps its bounds as they are given.
Interval_AsGiven(lo, hi) == [k |-> "iv", lo |-> lo, hi |-> hi]

\* Interval.__post_init__: inverted bounds are swapped.
Interval(lo, hi) ==
    IF lo > hi THEN [k |-> "iv", lo |-> hi, hi |-> lo]
    ELSE [k |-> "iv", lo |-> lo, hi |-> hi]

Min2(a, b) == IF a <= b THEN a ELSE b
Max2(a, b) == IF a >= b THEN a ELSE b
Abs(a) == IF a < 0 THEN -a ELSE a

mid2(v) == v.lo + v.hi      \* twice Interval.mid()
width(v) == v.hi - v.lo

is_numberlike(v) == v.k = "num"

\* Interval.__mul__ / __rmul__ and float * float; anything else with text or
\* None raises TypeError, which is "none" here (the caller is _safe_eval).
Mul(a, b) ==
    IF a.k = "iv" /\ b.k = "iv" THEN
        LET c == {a.lo * b.lo, a.lo * b.hi, a.hi * b.lo, a.hi * b.hi}
        IN Interval(CHOOSE m \in c : \A y \in c : m <= y,
                    CHOOSE m \in c : \A y \in c : m >= y)
    ELSE IF a.k = "iv" /\ b.k = "num" THEN
        Interval(Min2(a.lo * b.lo, a.hi * b.lo), Max2(a.lo * b.lo, a.hi * b.lo))
    ELSE IF a.k = "num" /\ b.k = "iv" THEN
        Interval(Min2(b.lo * a.lo, b.hi * a.lo), Max2(b.lo * a.lo, b.hi * a.lo))
    ELSE IF a.k = "num" /\ b.k = "num" THEN Num(a.lo * b.lo)
    ELSE None

\* A blend that moves half as far as the strength says.
Mix_Damped(x, y, s) == ((4 - s) * x + s * y) \div 4

\* (1 - strength) * x + strength * y, with strength = s/2.
Mix(x, y, s) == ((2 - s) * x + s * y) \div 2

\* blend that takes an Unknown old value for 0 and averages from there.
blend_NoAdopt(old, target, strength) ==
    IF old.k \in {"unknown", "none"} THEN
        IF target.k = "iv"
        THEN [v |-> Interval(Mix(0, target.lo, strength),
                             Mix(0, target.hi, strength)), ok |-> TRUE]
        ELSE IF target.k = "num"
        THEN [v |-> Num(Mix(0, target.lo, strength)), ok |-> TRUE]
        ELSE [v |-> None, ok |-> FALSE]
    ELSE IF old.k = "iv" \/ target.k = "iv" THEN
        IF old.k \in {"iv", "num"} /\ target.k \in {"iv", "num"}
        THEN [v |-> Interval(Mix(old.lo, target.lo, strength),
                             Mix(old.hi, target.hi, strength)),
              ok |-> TRUE]
        ELSE [v |-> None, ok |-> FALSE]
    ELSE IF old.k = "num" /\ target.k = "num"
        THEN [v |-> Num(Mix(old.lo, target.lo, strength)), ok |-> TRUE]
        ELSE [v |-> None, ok |-> FALSE]

\* blend(old, target, strength): [ok, v]; ok = FALSE is the TypeError Python
\* raises when a non-numeric operand reaches the arithmetic.
blend(old, target, strength) ==
    IF old.k \in {"unknown", "none"} THEN [v |-> target, ok |-> TRUE]
    ELSE IF old.k = "iv" \/ target.k = "iv" THEN
        IF old.k \in {"iv", "num"} /\ target.k \in {"iv", "num"}
        THEN [v |-> Interval(Mix(old.lo, target.lo, strength),
                             Mix(old.hi, target.hi, strength)),
              ok |-> TRUE]
        ELSE [v |-> None, ok |-> FALSE]
    ELSE IF old.k = "num" /\ target.k = "num"
        THEN [v |-> Num(Mix(old.lo, target.lo, strength)), ok |-> TRUE]
        ELSE [v |-> None, ok |-> FALSE]

\* to_interval of gpt5-synthesis-1.py: None for what is neither a number nor
\* an Interval.
to_interval(x) ==
    IF x.k = "iv" THEN x
    ELSE IF x.k = "num" THEN Interval(x.lo, x.lo)
    ELSE None

\* blend of gpt5-synthesis-1.py: `to_interval(x) or Interval(0, 0)` puts
\* [0, 0] in place of an operand that is no number, so the interval branch
\* never raises.
blend_syn1(old, target, strength) ==
    IF old.k \in {"unknown", "none"} THEN [v |-> target, ok |-> TRUE]
    ELSE IF old.k = "iv" \/ target.k = "iv" THEN
        LET oldI == IF to_interval(old) = None THEN Interval(0, 0) ELSE to_interval(old)
            tgtI == IF to_interval(target) = None THEN Interval(0, 0)
                    ELSE to_interval(target)
        IN [v |-> Interval(Mix(oldI.lo, tgtI.lo, strength),
                           Mix(oldI.hi, tgtI.hi, strength)),
            ok |-> TRUE]
    ELSE IF old.k = "num" /\ target.k = "num"
        THEN [v |-> Num(Mix(old.lo, target.lo, strength)), ok |-> TRUE]
        ELSE [v |-> None, ok |-> FALSE]

-----------------------------------------------------------------------------
(* Python dicts keep insertion order: a dict of entities is a sequence of  *)
(* records with distinct id fields.                                        *)

Ids(s) == {s[i].id : i \in DOMAIN s}
Has(s, id) == \E i \in DOMAIN s : s[i].id = id
Idx(s, id) == CHOOSE i \in DOMAIN s : s[i].id = id
Get(s, id) == s[Idx(s, id)]
Put(s, r) == IF Has(s, r.id) THEN [s EXCEPT ![Idx(s, r.id)] = r] ELSE Append(s, r)
Del(s, id) == SelectSeq(s, LAMBDA r : r.id # id)

NoAttrs == [x \in {} |-> Unknown]
AttrGet(attrs, key, default) == IF key \in DOMAIN attrs THEN attrs[key] ELSE default
AttrSet(attrs, key, v) ==
    [x \in DOMAIN attrs \cup {key} |-> IF x = key THEN v ELSE attrs[x]]

\* A path "<entityId>.<attrName>", already split on its first separator;
\* sep = FALSE is a path string with no "." in it.
Path(ent, key) == [key |-> key, ent |-> ent, sep |-> TRUE]
NoSepPath == [key |-> "", ent |-> "nosep", sep |-> FALSE]
PathStr(p) == IF p.sep THEN p.ent \o "." \o p.key ELSE p.ent

NoId == "<none>"

-----------------------------------------------------------------------------
(* The Workbench: nodes, edges, constraints, rules, version, provenance,   *)
(* snapshots.                                                              *)

EmptyWB ==
    [nodes |-> <<>>, edges |-> <<>>, constraints |-> <<>>, rules |-> <<>>,
     version |-> 0, provenance |-> <<>>, snapshots |-> <<>>]

Ok(W) == [ok |-> TRUE, wb |-> W]
Raise(W) == [ok |-> FALSE, wb |-> W]

\* A provenance entry.  args and result of create_node / create_edge hold the
\* attrs dict; `shared` names the container (<<kind, id>>) whose live attrs
\* dict the entry's result holds, <<>> when it holds none, and args_shared
\* says whether args["attrs"] is that same dict.  attrs is what the shared
\* dict reads now.  The plain values in the args of the other operations
\* are left out.
ProvenanceEntry(op, version, shared, args_shared, attrs) ==
    [attrs |-> attrs, version |-> version, op |-> op,
     shared |-> shared, args_shared |-> args_shared]

\* Workbench._bump: one more version, one more provenance entry.
Bump(W, op) ==
    [W EXCEPT !.version = @ + 1,
              !.provenance = Append(@, ProvenanceEntry(op, W.version + 1, <<>>, FALSE,
                                                       NoAttrs))]

\* _bump of create_node / create_edge: result["attrs"] is the attrs dict of
\* the new container itself, and args["attrs"] is `attrs or {}`, the same
\* dict when the caller passed a non-empty one.
BumpShared(W, op, kind, id, attrs) ==
    [W EXCEPT !.version = @ + 1,
              !.provenance = Append(@, ProvenanceEntry(op, W.version + 1, <<kind, id>>,
                                                       attrs # NoAttrs, attrs))]

\* Workbench._resolve_container: nodes are looked up before edges.
resolve_container(W, path) ==
    IF ~path.sep THEN [ok |-> FALSE, kind |-> "none"]
    ELSE IF Has(W.nodes, path.ent) THEN [ok |-> TRUE, kind |-> "node"]
    ELSE IF Has(W.edges, path.ent) THEN [ok |-> TRUE, kind |-> "edge"]
    ELSE [ok |-> FALSE, kind |-> "none"]

AttrsAt(W, path) ==
    IF resolve_container(W, path).kind = "node"
    THEN Get(W.nodes, path.ent).attrs
    ELSE Get(W.edges, path.ent).attrs

\* A write into the attrs dict of a container shows in every provenance
\* entry that holds the same dict.
Aliased(provenance, kind, id, attrs) ==
    [i \in DOMAIN provenance |->
        IF provenance[i].shared = <<kind, id>>
        THEN [provenance[i] EXCEPT !.attrs = attrs]
        ELSE provenance[i]]

\* attrs[key] = value in the container the path resolves to.
StoreAttr(W, path, key, value) ==
    IF resolve_container(W, path).kind = "node"
    THEN [W EXCEPT !.nodes[Idx(W.nodes, path.ent)].attrs = AttrSet(@, key, value),
                   !.provenance = Aliased(@, "node", path.ent,
                                          AttrSet(Get(W.nodes, path.ent).attrs, key, value))]
    ELSE [W EXCEPT !.edges[Idx(W.edges, path.ent)].attrs = AttrSet(@, key, value),
                   !.provenance = Aliased(@, "edge", path.ent,
                                          AttrSet(Get(W.edges, path.ent).attrs, key, value))]

\* Workbench.val: lenient read, None for anything absent or Unknown.
val(W, path) ==
    IF ~resolve_container(W, path).ok THEN None
    ELSE LET v == AttrGet(AttrsAt(W, path), path.key, Unknown)
         IN IF v.k = "unknown" THEN None ELSE v

\* Workbench.set_val: raises KeyError when the path does not resolve.
set_val(W, path, value) ==
    IF ~resolve_container(W, path).ok THEN Raise(W)
    ELSE Ok(StoreAttr(W, path, path.key, value))

-----------------------------------------------------------------------------
(* Optional arguments: <<>> is Python's None, <<x>> is the value x.        *)

Nothing == <<>>
Some(x) == <<x>>
IsSome(o) == o # <<>>
The(o) == o[1]

IntStr(i) ==
    CASE i = 0 -> "0" [] i = 1 -> "1" [] i = 2 -> "2" [] i = 3 -> "3"
      [] i = 4 -> "4" [] i = 5 -> "5" [] OTHER -> "n"

-----------------------------------------------------------------------------
(* CRUD.  uuid stands for the six hex digits uuid4() draws when no id is   *)
(* given.                                                                  *)

\* Workbench.create_node
create_node(W, type, id, attrs, uuid) ==
    LET nid == IF id = NoId THEN "n_" \o uuid ELSE id
    IN IF Has(W.nodes, nid) THEN Raise(W) @@ [id |-> nid]
       ELSE Ok(BumpShared([W EXCEPT !.nodes =
                              Append(@, [id |-> nid, attrs |-> attrs, type |-> type])],
                          "create_node", "node", nid, attrs)) @@ [id |-> nid]

\* The while loop of create_edge: base, base#1, base#2, ...
RECURSIVE FreshEdgeId(_, _, _)
FreshEdgeId(W, base, i) ==
    LET eid == IF i = 0 THEN base ELSE base \o "#" \o IntStr(i)
    IN IF Has(W.edges, eid) THEN FreshEdgeId(W, base, i + 1) ELSE eid

\* create_edge with the endpoint check moved behind the insertion.
create_edge_LateCheck(W, type, from_id, to_id, id, attrs) ==
    LET eid == IF id = NoId
               THEN FreshEdgeId(W, from_id \o "->" \o to_id \o ":" \o type, 0)
               ELSE id
        W1 == BumpShared([W EXCEPT !.edges =
                             Put(@, [id |-> eid, attrs |-> attrs, type |-> type,
                                     from_id |-> from_id, to_id |-> to_id])],
                         "create_edge", "edge", eid, attrs)
    IN IF ~Has(W.nodes, from_id) \/ ~Has(W.nodes, to_id) \/ Has(W.edges, eid)
       THEN Raise(W1) @@ [id |-> eid]
       ELSE Ok(W1) @@ [id |-> eid]

\* create_edge that looks at to_id only.
create_edge_AnyFrom(W, type, from_id, to_id, id, attrs) ==
    IF ~Has(W.nodes, to_id) THEN Raise(W) @@ [id |-> id]
    ELSE LET eid == IF id = NoId
                    THEN FreshEdgeId(W, from_id \o "->" \o to_id \o ":" \o type, 0)
                    ELSE id
         IN IF Has(W.edges, eid) THEN Raise(W) @@ [id |-> eid]
            ELSE Ok(BumpShared([W EXCEPT !.edges =
                                   Append(@, [id |-> eid, attrs |-> attrs,
                                              type |-> type, from_id |-> from_id,
                                              to_id |-> to_id])],
                               "create_edge", "edge", eid, attrs)) @@ [id |-> eid]

\* Workbench.create_edge
create_edge(W, type, from_id, to_id, id, attrs) ==
    IF ~Has(W.nodes, from_id) \/ ~Has(W.nodes, to_id) THEN Raise(W) @@ [id |-> id]
    ELSE LET eid == IF id = NoId
                    THEN FreshEdgeId(W, from_id \o "->" \o to_id \o ":" \o type, 0)
                    ELSE id
         IN IF Has(W.edges, eid) THEN Raise(W) @@ [id |-> eid]
            ELSE Ok(BumpShared([W EXCEPT !.edges =
                                   Append(@, [id |-> eid, attrs |-> attrs,
                                              type |-> type, from_id |-> from_id,
                                              to_id |-> to_id])],
                               "create_edge", "edge", eid, attrs)) @@ [id |-> eid]

\* Workbench.set_attr
set_attr(W, target, value, confidence) ==
    LET r == set_val(W, target, value)
    IN IF ~r.ok THEN Raise(W)
       ELSE LET W1 == IF IsSome(confidence)
                      THEN StoreAttr(r.wb, target, target.key \o "__confidence",
                                     Num(The(confidence)))
                      ELSE r.wb
            IN Ok(Bump(W1, "set_attr"))

Constraint(id, target, expr, strength, note) ==
    [target |-> target, strength |-> strength, id |-> id, expr |-> expr, note |-> note]

\* Workbench.assert_constraint: s0 refuses a taken id, s3 does not look.
assert_constraint(im, W, target, expr, strength, note, id, uuid) ==
    LET cid == IF id = NoId THEN "c_" \o uuid ELSE id
    IN IF im = "s0" /\ Has(W.constraints, cid) THEN Raise(W) @@ [id |-> cid]
       ELSE Ok(Bump([W EXCEPT !.constraints =
                        Put(@, Constraint(cid, target, expr, strength, note))],
                    "assert_constraint")) @@ [id |-> cid]

\* upsert_constraint that stores a new constraint even when the id is taken.
upsert_constraint_Append(W, id, target, expr, strength, note) ==
    Ok(Bump([W EXCEPT !.constraints =
                Append(@, Constraint(id, target, expr, strength, note))],
            "upsert_constraint")) @@ [id |-> id]

\* Workbench.upsert_constraint
upsert_constraint(W, id, target, expr, strength, note) ==
    Ok(Bump([W EXCEPT !.constraints = Put(@, Constraint(id, target, expr, strength, note))],
            "upsert_constraint")) @@ [id |-> id]

\* Workbench.remove_constraint (s0): removing an absent id is a silent no-op.
remove_constraint(W, id) ==
    IF Has(W.constraints, id)
    THEN Ok(Bump([W EXCEPT !.constraints = Del(@, id)], "remove_constraint"))
         @@ [removed |-> TRUE]
    ELSE Ok(W) @@ [removed |-> FALSE]

\* Workbench.define_rule: self.rules[name] = rule.
define_rule(W, name, node_patterns, edge_patterns, actions) ==
    LET rule == [id |-> name, node_patterns |-> node_patterns,
                 edge_patterns |-> edge_patterns, actions |-> actions]
    IN Ok(Bump([W EXCEPT !.rules = Put(@, rule)], "define_rule"))

-----------------------------------------------------------------------------
(* The rule matcher.  A binding environment is a function from variable    *)
(* names to entity ids.                                                    *)

NoType == ""
NoVar == ""
NoEnv == [x \in {} |-> ""]
Rng(f) == {f[x] : x \in DOMAIN f}
Bind(env, var, id) == [x \in DOMAIN env \cup {var} |-> IF x = var THEN id ELSE env[x]]
Pop(env, var) == [x \in DOMAIN env \ {var} |-> env[x]]

\* n.attrs.get(k) != v for every (k, v) of the pattern's where: an Unknown
\* attribute equals nothing (Unknown defines no __eq__).
WhereOk(attrs, where) ==
    \A key \in DOMAIN where :
        LET a == AttrGet(attrs, key, None)
        IN a.k # "unknown" /\ a = where[key]

IdsOf(s) == [i \in DOMAIN s |-> s[i].id]

\* Workbench._node_candidates
node_candidates(W, pat) ==
    IdsOf(SelectSeq(W.nodes,
        LAMBDA n : /\ (pat.type # NoType => n.type = pat.type)
                   /\ WhereOk(n.attrs, pat.where)))

\* Workbench._edge_candidates
edge_candidates(W, pat, env) ==
    IdsOf(SelectSeq(W.edges,
        LAMBDA e : /\ (pat.type # NoType => e.type = pat.type)
                   /\ ~(pat.from # NoVar /\ pat.from \in DOMAIN env
                        /\ e.from_id # env[pat.from])
                   /\ ~(pat.to # NoVar /\ pat.to \in DOMAIN env
                        /\ e.to_id # env[pat.to])
                   /\ WhereOk(e.attrs, pat.where)))

\* backtrack_edges of _match_rule: [out, env], out the environments yielded
\* (as they are at the moment of the yield) and env the dict as the loop
\* leaves it: the from/to bindings an edge adds are never undone.  s0 skips
\* an edge already bound in the environment, s3 does not.
RECURSIVE backtrack_edges(_, _, _, _, _)
RECURSIVE EdgeLoop(_, _, _, _, _, _, _, _)
backtrack_edges(im, W, rule, j, env) ==
    IF j > Len(rule.edge_patterns) THEN [env |-> env, out |-> <<env>>]
    ELSE EdgeLoop(im, W, rule, j, edge_candidates(W, rule.edge_patterns[j], env),
                  1, env, <<>>)

EdgeLoop(im, W, rule, j, cands, c, env, out) ==
    IF c > Len(cands) THEN [env |-> env, out |-> out]
    ELSE LET eid == cands[c]
             pat == rule.edge_patterns[j]
             var == IF pat.var = NoVar THEN "e" \o IntStr(j - 1) ELSE pat.var
             e == Get(W.edges, eid)
         IN IF im = "s0" /\ eid \in Rng(env)
            THEN EdgeLoop(im, W, rule, j, cands, c + 1, env, out)
            ELSE LET e1 == IF pat.from # NoVar /\ pat.from \notin DOMAIN env
                           THEN Bind(env, pat.from, e.from_id) ELSE env
                     e2 == IF pat.to # NoVar /\ pat.to \notin DOMAIN e1
                           THEN Bind(e1, pat.to, e.to_id) ELSE e1
                     e3 == Bind(e2, var, eid)
                     r == backtrack_edges(im, W, rule, j + 1, e3)
                 IN EdgeLoop(im, W, rule, j, cands, c + 1, Pop(r.env, var),
                             out \o r.out)

\* backtrack_nodes of _match_rule: node variables bind to distinct ids.
RECURSIVE backtrack_nodes(_, _, _, _, _)
RECURSIVE NodeLoop(_, _, _, _, _, _, _, _)
backtrack_nodes(im, W, rule, i, vars_env) ==
    IF i > Len(rule.node_patterns)
    THEN [env |-> vars_env, out |-> backtrack_edges(im, W, rule, 1, vars_env).out]
    ELSE NodeLoop(im, W, rule, i, node_candidates(W, rule.node_patterns[i]),
                  1, vars_env, <<>>)

NodeLoop(im, W, rule, i, cands, c, vars_env, out) ==
    IF c > Len(cands) THEN [env |-> vars_env, out |-> out]
    ELSE LET nid == cands[c]
             var == rule.node_patterns[i].var
         IN IF nid \in Rng(vars_env)
            THEN NodeLoop(im, W, rule, i, cands, c + 1, vars_env, out)
            ELSE LET r == backtrack_nodes(im, W, rule, i + 1, Bind(vars_env, var, nid))
                 IN NodeLoop(im, W, rule, i, cands, c + 1, Pop(r.env, var),
                             out \o r.out)

\* Workbench._match_rule: the environments in the order they are yielded.
match_rule(im, W, rule) == backtrack_nodes(im, W, rule, 1, NoEnv).out

\* Workbench._format on the entity segment of a path: "{var}" becomes the
\* bound id, anything else stays as it is.
FormatEnt(ent, env) ==
    IF \E x \in DOMAIN env : ent = "{" \o x \o "}"
    THEN env[CHOOSE x \in DOMAIN env : ent = "{" \o x \o "}"]
    ELSE ent

format(template, env) == [template EXCEPT !.ent = FormatEnt(@, env)]

\* An expression: a literal, val(p), val(p) * val(q), or text that does not
\* evaluate ("bad").
Lit(v) == [v |-> v, p |-> NoSepPath, op |-> "lit", q |-> NoSepPath]
ValOf(p) == [v |-> None, p |-> p, op |-> "val", q |-> NoSepPath]
MulOf(p, q) == [v |-> None, p |-> p, op |-> "mul", q |-> q]
BadExpr == [v |-> None, p |-> NoSepPath, op |-> "bad", q |-> NoSepPath]

format_expr(expr, env) == [expr EXCEPT !.p = format(@, env), !.q = format(@, env)]

RuleConstraintId_NoTarget(name, target) == "r:" \o name

RuleConstraintId(name, target) == "r:" \o name \o ":" \o PathStr(target)

\* The "for act in rule.actions" loop of run_rules for one environment.
RECURSIVE ActionLoop(_, _, _, _, _)
ActionLoop(W, rule, env, a, applied) ==
    IF a > Len(rule.actions) THEN [wb |-> W, applied |-> applied]
    ELSE LET act == rule.actions[a]
         IN IF act.kind # "ensure_constraint"
            THEN ActionLoop(W, rule, env, a + 1, applied)
            ELSE LET target == format(act.target, env)
                     expr == format_expr(act.expr, env)
                     cid == RuleConstraintId(rule.id, target)
                     r == upsert_constraint(W, cid, target, expr, act.strength, act.note)
                 IN ActionLoop(r.wb, rule, env, a + 1, applied + 1)

\* The "for env in self._match_rule(rule)" loop: a reached limit breaks it.
RECURSIVE EnvLoop(_, _, _, _, _, _)
EnvLoop(W, rule, envs, n, limit, applied) ==
    IF n > Len(envs) THEN [wb |-> W, applied |-> applied]
    ELSE IF IsSome(limit) /\ applied >= The(limit) THEN [wb |-> W, applied |-> applied]
    ELSE LET r == ActionLoop(W, rule, envs[n], 1, applied)
         IN EnvLoop(r.wb, rule, envs, n + 1, limit, r.applied)

RECURSIVE RuleLoop(_, _, _, _, _)
RuleLoop(im, W, k, limit, applied) ==
    IF k > Len(W.rules) THEN [wb |-> W, applied |-> applied]
    ELSE LET r == EnvLoop(W, W.rules[k], match_rule(im, W, W.rules[k]), 1, limit, applied)
         IN RuleLoop(im, r.wb, k + 1, limit, r.applied)

\* run_rules that first drops the constraints in the store and keeps only
\* those of the matches it finds.
run_rules_Retract(im, W, limit) ==
    LET r == RuleLoop(im, [W EXCEPT !.constraints = <<>>], 1, limit, 0)
    IN Ok(Bump(r.wb, "run_rules")) @@ [applied |-> r.applied]

\* Workbench.run_rules
run_rules(im, W, limit) ==
    LET r == RuleLoop(im, W, 1, limit, 0)
    IN Ok(Bump(r.wb, "run_rules")) @@ [applied |-> r.applied]

-----------------------------------------------------------------------------
(* Propagation.  delta is kept in half units: the model's delta is twice   *)
(* the source's, and so is every until_delta given to simulate.            *)

\* Workbench._safe_eval: every exception inside eval() becomes None.
safe_eval(W, expr) ==
    CASE expr.op = "lit" -> expr.v
      [] expr.op = "val" -> val(W, expr.p)
      [] expr.op = "mul" -> Mul(val(W, expr.p), val(W, expr.q))
      [] OTHER -> None

\* The delta one update adds in propagate_once.
UpdateDelta(current, new_val) ==
    IF current.k = "iv" /\ new_val.k = "iv"
    THEN Abs(mid2(new_val) - mid2(current)) + 2 * Abs(width(new_val) - width(current))
    ELSE IF is_numberlike(current) /\ is_numberlike(new_val)
    THEN 2 * Abs(new_val.lo - current.lo)
    ELSE 2

\* current != new_val in Python: an Unknown equals nothing.
Differs(current, new_val) == current.k = "unknown" \/ current # new_val

\* The loop of propagate_once over the constraints in store order.  blend is
\* called outside any try: when it raises, the updates already written stay
\* and the call ends without a bump.
RECURSIVE PropLoop(_, _, _, _)
PropLoop(W, i, count, delta) ==
    IF i > Len(W.constraints)
    THEN [ok |-> TRUE, wb |-> Bump(W, "propagate_once"), count |-> count, delta |-> delta]
    ELSE LET c == W.constraints[i]
             target_value == safe_eval(W, c.expr)
         IN IF target_value = None THEN PropLoop(W, i + 1, count, delta)
            ELSE IF ~resolve_container(W, c.target).ok THEN PropLoop(W, i + 1, count, delta)
            ELSE LET current == AttrGet(AttrsAt(W, c.target), c.target.key, Unknown)
                     b == blend(current, target_value, c.strength)
                 IN IF ~b.ok
                    THEN [ok |-> FALSE, wb |-> W, count |-> count, delta |-> delta]
                    ELSE IF Differs(current, b.v)
                    THEN PropLoop(StoreAttr(W, c.target, c.target.key, b.v), i + 1,
                                  count + 1, delta + UpdateDelta(current, b.v))
                    ELSE PropLoop(W, i + 1, count, delta)

\* Workbench.propagate_once
propagate_once(W) == PropLoop(W, 1, 0, 0)

\* max_steps is truthy: given and not 0 (s0 only; s3 has no such argument).
Truthy(im, max_steps) == im = "s0" /\ IsSome(max_steps) /\ The(max_steps) # 0

\* One pass of the while loop of simulate, r the result of its
\* propagate_once call: the stop criteria in the order the code tests them.
\* passes counts the propagate_once calls made, busy says that every tick so
\* far made an update with delta above until_delta, trace lists count and
\* delta of the ticks run, why names the test that ended the loop.
RECURSIVE SimLoop(_, _, _, _, _, _, _, _, _, _)
SimStep(im, r, ticks, steps, total, last_delta, until_delta, max_steps, busy, trace) ==
    IF ~r.ok
    THEN [ok |-> FALSE, wb |-> r.wb, steps |-> steps, busy |-> FALSE,
          trace |-> trace, passes |-> steps + 1, total_updates |-> total, why |-> "raise"]
    ELSE IF \/ (until_delta # 0 /\ r.delta <= until_delta)
            \/ (Truthy(im, max_steps) /\ steps + 1 >= The(max_steps))
            \/ (r.count = 0 /\ (last_delta = Nothing \/ last_delta = Some(0)))
    THEN [ok |-> TRUE, wb |-> Bump(r.wb, "simulate"), steps |-> steps + 1,
          busy |-> busy /\ r.count > 0 /\ r.delta > until_delta,
          trace |-> Append(trace, [count |-> r.count, delta |-> r.delta]),
          passes |-> steps + 1,
          total_updates |-> total + r.count,
          why |-> IF until_delta # 0 /\ r.delta <= until_delta THEN "until_delta"
                  ELSE IF Truthy(im, max_steps) /\ steps + 1 >= The(max_steps)
                  THEN "max_steps"
                  ELSE "count"]
    ELSE SimLoop(im, r.wb, ticks - 1, steps + 1, total + r.count, Some(r.delta),
                 until_delta, max_steps, busy /\ r.count > 0 /\ r.delta > until_delta,
                 Append(trace, [count |-> r.count, delta |-> r.delta]))

\* The while loop of simulate.
SimLoop(im, W, ticks, steps, total, last_delta, until_delta, max_steps, busy, trace) ==
    IF ~(ticks > 0 \/ (Truthy(im, max_steps) /\ steps < The(max_steps)))
    THEN [ok |-> TRUE, wb |-> Bump(W, "simulate"), steps |-> steps, busy |-> busy,
          trace |-> trace, passes |-> steps, total_updates |-> total, why |-> "ticks"]
    ELSE SimStep(im, propagate_once(W), ticks, steps, total, last_delta, until_delta,
                 max_steps, busy, trace)

\* simulate with a loop that runs one pass too many.
simulate_OneMore(im, W, ticks, until_delta, max_steps) ==
    SimLoop(im, W, ticks + 1, 0, 0, Nothing, until_delta, max_steps, TRUE, <<>>)

\* Workbench.simulate
simulate(im, W, ticks, until_delta, max_steps) ==
    SimLoop(im, W, ticks, 0, 0, Nothing, until_delta, max_steps, TRUE, <<>>)

-----------------------------------------------------------------------------
(* Snapshots (s0), queries, diff.                                          *)

\* Workbench.snapshot: stored under the version before the bump, returns
\* the version after it.
snapshot(W) ==
    LET snap == [nodes |-> W.nodes, edges |-> W.edges, constraints |-> W.constraints]
        W1 == [W EXCEPT !.snapshots =
                  [v \in DOMAIN W.snapshots \cup {W.version} |->
                      IF v = W.version THEN snap ELSE W.snapshots[v]]]
    IN Ok(Bump(W1, "snapshot")) @@ [version |-> W.version + 1]

\* revert puts deep copies in place of self.nodes and self.edges: the dicts
\* the provenance entries hold are no longer the attrs of any container.
Detached(provenance) ==
    [i \in DOMAIN provenance |-> [provenance[i] EXCEPT !.shared = <<>>]]

\* revert that also winds the log and the version back to the snapshot.
revert_Truncate(W, version) ==
    IF version \notin DOMAIN W.snapshots THEN Raise(W)
    ELSE LET snap == W.snapshots[version]
         IN Ok(Bump([W EXCEPT !.nodes = snap.nodes, !.edges = snap.edges,
                              !.constraints = snap.constraints,
                              !.version = version,
                              !.provenance = SubSeq(@, 1, version)], "revert"))

\* Workbench.revert
revert(W, version) ==
    IF version \notin DOMAIN W.snapshots THEN Raise(W)
    ELSE LET snap == W.snapshots[version]
         IN Ok(Bump([W EXCEPT !.nodes = snap.nodes, !.edges = snap.edges,
                              !.constraints = snap.constraints,
                              !.provenance = Detached(@)], "revert"))

\* query_attr that forgets the value it has read.
query_attr_Forgetting(W, path) ==
    IF resolve_container(W, path).ok
    THEN Ok(Bump(StoreAttr(W, path, path.key, Unknown), "query_attr"))
         @@ [value |-> val(W, path)]
    ELSE Ok(Bump(W, "query_attr")) @@ [value |-> val(W, path)]

\* Workbench.query_attr
query_attr(W, path) == Ok(Bump(W, "query_attr")) @@ [value |-> val(W, path)]

\* explain that lists every constraint of the store, whatever its target.
explain_All(W, path) ==
    Ok(Bump(W, "explain")) @@
    [contributors |-> [i \in DOMAIN W.constraints |->
        [strength |-> W.constraints[i].strength, id |-> W.constraints[i].id,
         expr |-> W.constraints[i].expr, note |-> W.constraints[i].note,
         current |-> val(W, path),
         expr_value |-> safe_eval(W, W.constraints[i].expr)]]]

\* Workbench.explain: the constraints on path, in store order.
explain(W, path) ==
    LET on == SelectSeq(W.constraints, LAMBDA c : c.target = path)
    IN Ok(Bump(W, "explain")) @@
       [contributors |-> [i \in DOMAIN on |->
           [strength |-> on[i].strength, id |-> on[i].id, expr |-> on[i].expr,
            note |-> on[i].note, current |-> val(W, path),
            expr_value |-> safe_eval(W, on[i].expr)]]]

\* diff that also returns the entry whose version is since_version.
diff_Inclusive(W, since_version) ==
    Ok(Bump(W, "diff")) @@
    [diffs |-> SelectSeq(W.provenance, LAMBDA pe : pe.version >= since_version)]

\* Workbench.diff
diff(W, since_version) ==
    Ok(Bump(W, "diff")) @@
    [diffs |-> SelectSeq(W.provenance, LAMBDA pe : pe.version > since_version)]

-----------------------------------------------------------------------------
(* The JSONL command runner.  A line is blank, malformed (json.loads       *)
(* raises), a record with no "op" field ("noop"), or a record naming an    *)
(* op ("call") with the op's keyword arguments as its other fields.        *)

\* The methods a command can name, per implementation.
Methods(im) ==
    {"create_node", "create_edge", "set_attr", "assert_constraint",
     "upsert_constraint", "define_rule", "run_rules", "propagate_once",
     "simulate", "query_attr", "explain", "diff"}
    \cup (IF im = "s0" THEN {"remove_constraint", "snapshot", "revert"} ELSE {})

\* Attributes of the instance that are not callable.
DataAttrs ==
    {"nodes", "edges", "constraints", "rules", "version", "provenance", "snapshots"}

\* hasattr(self, op)
HasAttr(im, op) == op \in Methods(im) \cup DataAttrs

\* getattr(self, op)(**args)
Dispatch(im, W, cmd) ==
    CASE cmd.op \notin Methods(im) -> Raise(W)
      [] cmd.op = "create_node" ->
            create_node(W, cmd.type, cmd.id, cmd.attrs, cmd.uuid)
      [] cmd.op = "create_edge" ->
            create_edge(W, cmd.type, cmd.from_id, cmd.to_id, cmd.id, cmd.attrs)
      [] cmd.op = "set_attr" -> set_attr(W, cmd.target, cmd.value, cmd.confidence)
      [] cmd.op = "assert_constraint" ->
            assert_constraint(im, W, cmd.target, cmd.expr, cmd.strength, cmd.note,
                              cmd.id, cmd.uuid)
      [] cmd.op = "upsert_constraint" ->
            upsert_constraint(W, cmd.id, cmd.target, cmd.expr, cmd.strength, cmd.note)
      [] cmd.op = "remove_constraint" -> remove_constraint(W, cmd.id)
      [] cmd.op = "define_rule" ->
            define_rule(W, cmd.name, cmd.node_patterns, cmd.edge_patterns, cmd.actions)
      [] cmd.op = "run_rules" -> run_rules(im, W, cmd.limit)
      [] cmd.op = "propagate_once" -> propagate_once(W)
      [] cmd.op = "simulate" -> simulate(im, W, cmd.ticks, cmd.until_delta, cmd.max_steps)
      [] cmd.op = "query_attr" -> query_attr(W, cmd.path)
      [] cmd.op = "explain" -> explain(W, cmd.path)
      [] cmd.op = "diff" -> diff(W, cmd.since_version)
      [] cmd.op = "snapshot" -> snapshot(W)
      [] cmd.op = "revert" -> revert(W, cmd.version)

\* The record appended for an op that does not exist: s0 writes no "ok"
\* key at all, s3 writes ok = False.
UnknownOpRecord(im, cmd) ==
    [ok |-> IF im = "s0" THEN "missing" ELSE "false", op |-> cmd.op]

\* The record appended for a dispatched op, r the result of the call.
CallRecord(cmd, r) == [ok |-> IF r.ok THEN "true" ELSE "false", op |-> cmd.op]

\* One called line of run_commands, r the result of the call: an exception
\* of the call is caught and recorded, what the call wrote before it stays.
RECURSIVE CmdLoop(_, _, _, _, _)
CmdStep(im, r, lines, i, outputs) ==
    CmdLoop(im, r.wb, lines, i + 1, Append(outputs, CallRecord(lines[i], r)))

\* The loop of run_commands.  json.loads and hasattr sit outside the try:
\* a malformed line or a record with no op ends the call with an exception,
\* whatever the earlier lines did stays done.
CmdLoop(im, W, lines, i, outputs) ==
    IF i > Len(lines) THEN [ok |-> TRUE, wb |-> W, outputs |-> outputs]
    ELSE CASE lines[i].kind = "blank" -> CmdLoop(im, W, lines, i + 1, outputs)
           [] lines[i].kind \in {"malformed", "noop"} ->
                 [ok |-> FALSE, wb |-> W, outputs |-> outputs]
           [] OTHER ->
                 IF ~HasAttr(im, lines[i].op)
                 THEN CmdLoop(im, W, lines, i + 1,
                              Append(outputs, UnknownOpRecord(im, lines[i])))
                 ELSE CmdStep(im, Dispatch(im, W, lines[i]), lines, i, outputs)

\* Workbench.run_commands
run_commands(im, W, jsonl) == CmdLoop(im, W, jsonl, 1, <<>>)

-----------------------------------------------------------------------------
(* The heap.  A workbench object h has its own version (an int, rebound by *)
(* every bump) and a reference sid[h] to the store holding its containers. *)

Handles == {"base", "f", "tmp"}
NoStore == "none"

StoreOf(W) ==
    [nodes |-> W.nodes, edges |-> W.edges, constraints |-> W.constraints,
     rules |-> W.rules, provenance |-> W.provenance, snapshots |-> W.snapshots]

Live(M, h) == M.sid[h] # NoStore

Read(M, h) ==
    LET st == M.heap[M.sid[h]]
    IN [nodes |-> st.nodes, edges |-> st.edges, constraints |-> st.constraints,
        rules |-> st.rules, version |-> M.ver[h], provenance |-> st.provenance,
        snapshots |-> st.snapshots]

Write(M, h, W) == [M EXCEPT !.ver[h] = W.version, !.heap[M.sid[h]] = StoreOf(W)]

Drop(M, h) ==
    [M EXCEPT !.sid[h] = NoStore, !.ver[h] = 0, !.heap[h] = StoreOf(EmptyWB)]

NewMem(W) ==
    Write([sid |-> [h \in Handles |-> IF h = "base" THEN "base" ELSE NoStore],
           heap |-> [h \in Handles |-> StoreOf(EmptyWB)],
           ver |-> [h \in Handles |-> 0]], "base", W)

\* A shallow copy: a new object on the same containers.
ForkShallow(M, h, t) == [M EXCEPT !.sid[t] = M.sid[h], !.ver[t] = M.ver[h]]

\* Workbench.fork (s3): deepcopy(self), the copy bound to handle t.
fork(M, h, t) ==
    [M EXCEPT !.sid[t] = t, !.ver[t] = M.ver[h], !.heap[t] = M.heap[M.sid[h]]]

\* The queries of one scenario: vals[q] = wb2.query_attr(q).
RECURSIVE QueryLoop(_, _, _, _)
QueryStep(r, queries, i, vals) == QueryLoop(r.wb, queries, i + 1, Append(vals, r.value))

QueryLoop(W, queries, i, vals) ==
    IF i > Len(queries) THEN [wb |-> W, vals |-> vals]
    ELSE QueryStep(query_attr(W, queries[i]), queries, i, vals)

\* One scenario of compare_scenarios on the fork wb2, step by step: the
\* batch (r1), simulate (r2), the queries (r3), the diff (r4).  [wb, ok, row].
ScenarioRow(sc, r3, r4) ==
    [ok |-> TRUE, wb |-> r4.wb,
     row |-> [vals |-> r3.vals, scenario |-> sc.name, ops_since_base |-> Len(r4.diffs)]]

ScenarioDiff(sc, r3, base_version) == ScenarioRow(sc, r3, diff(r3.wb, base_version))

ScenarioQueries(sc, r2, queries, base_version) ==
    IF ~r2.ok THEN [ok |-> FALSE, wb |-> r2.wb, row |-> <<>>]
    ELSE ScenarioDiff(sc, QueryLoop(r2.wb, queries, 1, <<>>), base_version)

ScenarioSimulate(im, sc, r1, queries, simulate_kwargs, base_version) ==
    IF ~r1.ok THEN [ok |-> FALSE, wb |-> r1.wb, row |-> <<>>]
    ELSE ScenarioQueries(sc,
            IF IsSome(simulate_kwargs)
            THEN simulate(im, r1.wb, The(simulate_kwargs).ticks,
                          The(simulate_kwargs).until_delta, Nothing)
            ELSE [ok |-> TRUE, wb |-> r1.wb],
            queries, base_version)

RunScenario(im, W2, sc, queries, simulate_kwargs, base_version) ==
    ScenarioSimulate(im, sc,
        IF sc.jsonl # <<>> THEN run_commands(im, W2, sc.jsonl)
        ELSE [ok |-> TRUE, wb |-> W2, outputs |-> <<>>],
        queries, simulate_kwargs, base_version)

\* Workbench.compare_scenarios (s3).  Each scenario runs on wb2 = self.fork(),
\* a local (handle "tmp") that is gone when the call returns or raises.
RECURSIVE ScenarioLoop(_, _, _, _, _, _, _, _)
ScenarioStep(im, M1, h, r, scenarios, i, queries, simulate_kwargs, rows) ==
    IF ~r.ok
    THEN [mem |-> Drop(Write(M1, "tmp", r.wb), "tmp"), ok |-> FALSE, rows |-> rows]
    ELSE ScenarioLoop(im, Drop(Write(M1, "tmp", r.wb), "tmp"), h, scenarios, i + 1,
                      queries, simulate_kwargs, Append(rows, r.row))

ScenarioOnFork(im, M1, h, scenarios, i, queries, simulate_kwargs, rows) ==
    ScenarioStep(im, M1, h,
        RunScenario(im, Read(M1, "tmp"), scenarios[i], queries, simulate_kwargs,
                    M1.ver[h]),
        scenarios, i, queries, simulate_kwargs, rows)

\* The loop with wb2 a second reference to self's containers, not a copy.
ScenarioLoop_NoCopy(im, M, h, scenarios, i, queries, simulate_kwargs, rows) ==
    IF i > Len(scenarios) THEN [mem |-> M, ok |-> TRUE, rows |-> rows]
    ELSE ScenarioOnFork(im, ForkShallow(M, h, "tmp"), h, scenarios, i, queries,
                        simulate_kwargs, rows)

ScenarioLoop(im, M, h, scenarios, i, queries, simulate_kwargs, rows) ==
    IF i > Len(scenarios) THEN [mem |-> M, ok |-> TRUE, rows |-> rows]
    ELSE ScenarioOnFork(im, fork(M, h, "tmp"), h, scenarios, i, queries,
                        simulate_kwargs, rows)

compare_scenarios(im, M, h, scenarios, queries, simulate_kwargs) ==
    ScenarioLoop(im, M, h, scenarios, 1, queries, simulate_kwargs, <<>>)

-----------------------------------------------------------------------------
(* The hybrid workbenches HybridWB of gpt5-synthesis-2.py ("syn2") and     *)
(* gpt5-synthesis-3.py ("syn3"): nodes only, each with semantics and a     *)
(* history; syn2 also keeps version and provenance.                        *)

\* clock is the last value time.time() returned to this workbench: every
\* reading is later than the one before.
EmptyHWB == [nodes |-> <<>>, version |-> 0, provenance |-> <<>>, clock |-> 0]

\* HybridWB._bump (syn2); syn3 keeps no version.
HBump(hi, H, op) ==
    IF hi = "syn2"
    THEN [H EXCEPT !.version = @ + 1, !.provenance = Append(@, [op |-> op])]
    ELSE H

\* HybridWB.create_node: self.nodes[id] = Node(...), whatever was there.
Hcreate_node(hi, H, type, id, attrs, uuid) ==
    LET nid == IF id = NoId THEN "n_" \o uuid ELSE id
        node == [id |-> nid, attrs |-> IF hi = "syn2" THEN attrs ELSE NoAttrs,
                 type |-> type,
                 semantics |-> <<>>, history |-> <<>>]
    IN [ok |-> TRUE,
        id |-> nid, wb |-> HBump(hi, [H EXCEPT !.nodes = Put(@, node)], "create_node")]

\* HybridWB.set_attr: path.split(".", 1) and self.nodes[ent] raise before
\* anything is written.
Hset_attr(hi, H, path, value, source, meaning) ==
    IF ~path.sep \/ ~Has(H.nodes, path.ent) THEN [ok |-> FALSE, wb |-> H]
    ELSE LET i == Idx(H.nodes, path.ent)
             n == H.nodes[i]
             old == AttrGet(n.attrs, path.key, None)
             n1 == [n EXCEPT
                      !.attrs = AttrSet(@, path.key, value),
                      !.history = Append(@, [path |-> path, from |-> old, to |-> value,
                                             source |-> source, meaning |-> meaning,
                                             when |-> H.clock + 1]),
                      !.semantics = IF meaning # "" THEN Append(@, meaning) ELSE @]
         IN [ok |-> TRUE,
             wb |-> HBump(hi, [H EXCEPT !.nodes[i] = n1, !.clock = @ + 1], "set_attr")]

\* HybridWB.val.  Both unpack path.split(".", 1) into two names, which raises
\* ValueError on a path with no separator; syn3 indexes self.nodes[ent],
\* which raises KeyError on an absent entity, and returns an Unknown as it is.
Hval(hi, H, path) ==
    IF ~path.sep THEN [v |-> None, ok |-> FALSE]
    ELSE IF ~Has(H.nodes, path.ent)
    THEN (IF hi = "syn2" THEN [v |-> None, ok |-> TRUE] ELSE [v |-> None, ok |-> FALSE])
    ELSE LET v == AttrGet(Get(H.nodes, path.ent).attrs, path.key,
                          IF hi = "syn2" THEN Unknown ELSE None)
         IN [v |-> IF hi = "syn2" /\ v.k = "unknown" THEN None ELSE v, ok |-> TRUE]

-----------------------------------------------------------------------------
(* Branch hypotheses and their collapse (gpt5-synthesis-2.py and           *)
(* gpt5-synthesis-3.py).  The candidates of a node live in its attrs, under *)
(* the key "branches": a dict from attribute name to the list of           *)
(* candidates.  Factors and confidences are counted in tenths.             *)

BranchDict(m) == [k |-> "dict", lo |-> 0, hi |-> 0, m |-> m]

\* MetaphorFork.interpret / the if-elif-else of fork_metaphors: the branches
\* of a context, in the order they are recorded.
BranchTable(context) ==
    IF "betrayal" \in Rng(context)
    THEN <<[confidence |-> 7, name |-> "pessimistic", metaphor |-> "Trust crumbles",
            factor |-> 3],
           [confidence |-> 3, name |-> "resilient", metaphor |-> "Trust bends",
            factor |-> 6]>>
    ELSE IF "repair" \in Rng(context)
    THEN <<[confidence |-> 6, name |-> "hopeful", metaphor |-> "Trust rebuilds",
            factor |-> 11],
           [confidence |-> 4, name |-> "cautious", metaphor |-> "Trust returns",
            factor |-> 9]>>
    ELSE <<[confidence |-> 10, name |-> "default", metaphor |-> "Trust flows",
            factor |-> 10]>>

\* v * k for a number or an Interval v and a factor of k tenths.
Times(v, factor) ==
    IF v.k = "iv"
    THEN Interval(Min2((v.lo * factor) \div 10, (v.hi * factor) \div 10),
                  Max2((v.lo * factor) \div 10, (v.hi * factor) \div 10))
    ELSE Num((v.lo * factor) \div 10)

\* The transform of a branch applied to the source value.  syn2: mul(k),
\* (to_interval(v) * k) if to_interval(v) else v.  syn3: lambda v: v * k,
\* which raises TypeError on what cannot be multiplied, and lambda v: v for
\* the default branch.
Transform(hi, spec, v) ==
    IF hi = "syn2"
    THEN IF to_interval(v) # None
         THEN [v |-> Times(to_interval(v), spec.factor), ok |-> TRUE]
         ELSE [v |-> v, ok |-> TRUE]
    ELSE IF spec.name = "default" THEN [v |-> v, ok |-> TRUE]
    ELSE IF v.k \in {"num", "iv"} THEN [v |-> Times(v, spec.factor), ok |-> TRUE]
    ELSE [v |-> None, ok |-> FALSE]

\* n.attrs.get("branches", {}).get(key, []): raises when attrs["branches"]
\* holds something that is no dict.
HCandidates(n, key) ==
    IF "branches" \notin DOMAIN n.attrs THEN [ok |-> TRUE, list |-> <<>>]
    ELSE IF n.attrs["branches"].k # "dict" THEN [ok |-> FALSE, list |-> <<>>]
    ELSE [ok |-> TRUE,
          list |-> IF key \in DOMAIN n.attrs["branches"].m
                   THEN n.attrs["branches"].m[key] ELSE <<>>]

\* if "branches" not in n.attrs: n.attrs["branches"] = {}
\* if key not in n.attrs["branches"]: n.attrs["branches"][key] = []
EnsureList(n, key) ==
    LET m == IF "branches" \in DOMAIN n.attrs THEN n.attrs["branches"].m
             ELSE [x \in {} |-> <<>>]
    IN [n EXCEPT !.attrs = AttrSet(@, "branches",
                    BranchDict(IF key \in DOMAIN m THEN m ELSE AttrSet(m, key, <<>>)))]

\* The candidate of one branch; syn2 also keeps the source value in it.
BranchEntry(hi, spec, value, source_val, context, when) ==
    IF hi = "syn2"
    THEN [value |-> value, confidence |-> spec.confidence, name |-> spec.name,
          from |-> source_val, when |-> when, context |-> context,
          metaphor |-> spec.metaphor]
    ELSE [value |-> value, confidence |-> spec.confidence, name |-> spec.name,
          when |-> when, context |-> context, metaphor |-> spec.metaphor]

\* One branch recorded: the candidate appended to the list of the attribute,
\* a history record with from None, the metaphor appended to semantics.
AddBranch(n, path, entry) ==
    [n EXCEPT
        !.attrs = AttrSet(@, "branches",
                    BranchDict([n.attrs["branches"].m EXCEPT
                                    ![path.key] = Append(@, entry)])),
        !.history = Append(@, [path |-> path, from |-> None, to |-> entry.value,
                               source |-> "fork:" \o entry.name, meaning |-> entry.metaphor,
                               when |-> entry.when]),
        !.semantics = Append(@, entry.metaphor)]

\* The loop over the branches of the context.  A transform that raises ends
\* the call and leaves what was written before it.
RECURSIVE ForkLoop(_, _, _, _, _, _, _, _, _)
ForkLoop(hi, H, i, path, specs, j, source_val, context, out) ==
    IF j > Len(specs) THEN [ok |-> TRUE, wb |-> H, out |-> out]
    ELSE LET t == Transform(hi, specs[j], source_val)
             entry == BranchEntry(hi, specs[j], t.v, source_val, context, H.clock + 1)
         IN IF ~t.ok THEN [ok |-> FALSE, wb |-> H, out |-> out]
            ELSE ForkLoop(hi, [H EXCEPT !.nodes[i] = AddBranch(EnsureList(@, path.key),
                                                               path, entry),
                                        !.clock = @ + 1],
                          i, path, specs, j + 1, source_val, context, Append(out, entry))

\* apply_metaphor_fork(wb, source_path, target_path, context, fork) of syn2
\* and fork_metaphors(wb, source_path, target_path, context) of syn3.  syn3
\* creates the empty candidate list before the first transform runs; syn2
\* bumps the version when the loop is done.
fork_metaphors(hi, H, source_path, target_path, context) ==
    LET source_val == Hval(hi, H, source_path)
    IN IF ~source_val.ok \/ ~target_path.sep \/ ~Has(H.nodes, target_path.ent)
       THEN [ok |-> FALSE, wb |-> H, out |-> <<>>]
       ELSE LET i == Idx(H.nodes, target_path.ent)
            IN IF ~HCandidates(H.nodes[i], target_path.key).ok
               THEN [ok |-> FALSE, wb |-> H, out |-> <<>>]
               ELSE LET H1 == IF hi = "syn3"
                              THEN [H EXCEPT !.nodes[i] = EnsureList(@, target_path.key)]
                              ELSE H
                        r == ForkLoop(hi, H1, i, target_path, BranchTable(context), 1,
                                      source_val.v, context, <<>>)
                    IN IF r.ok
                       THEN [r EXCEPT !.wb = HBump(hi, @, "apply_metaphor_fork")]
                       ELSE r

\* max(branches, key=lambda b: b["confidence"]): the first of the largest.
MaxConf(branches) ==
    branches[CHOOSE i \in DOMAIN branches :
                \A j \in DOMAIN branches :
                    /\ branches[j].confidence <= branches[i].confidence
                    /\ j < i => branches[j].confidence < branches[i].confidence]

\* The loop of weighted_mean when every candidate whose value is no
\* Interval is skipped.
RECURSIVE WeightedLoop_IntervalsOnly(_, _, _, _, _)
WeightedLoop_IntervalsOnly(branches, j, mids, widths, total_c) ==
    IF j > Len(branches) THEN [mids |-> mids, widths |-> widths, total_c |-> total_c]
    ELSE IF branches[j].value.k # "iv"
    THEN WeightedLoop_IntervalsOnly(branches, j + 1, mids, widths, total_c)
    ELSE WeightedLoop_IntervalsOnly(branches, j + 1,
                      mids + mid2(branches[j].value) * branches[j].confidence,
                      widths + width(branches[j].value) * branches[j].confidence,
                      total_c + branches[j].confidence)

\* The loop of the weighted_mean method: to_interval(b["value"]) is None for
\* what is neither a number nor an Interval, and such a candidate is
\* skipped.  mids sums 2 * v.mid() * c, widths sums v.width() * c.
RECURSIVE WeightedLoop(_, _, _, _, _)
WeightedLoop(branches, j, mids, widths, total_c) ==
    IF j > Len(branches) THEN [mids |-> mids, widths |-> widths, total_c |-> total_c]
    ELSE IF to_interval(branches[j].value) = None
    THEN WeightedLoop(branches, j + 1, mids, widths, total_c)
    ELSE WeightedLoop(branches, j + 1,
                      mids + mid2(to_interval(branches[j].value)) * branches[j].confidence,
                      widths + width(to_interval(branches[j].value))
                                   * branches[j].confidence,
                      total_c + branches[j].confidence)

\* The candidate the weighted_mean method chooses: lo = mid - width / 2 and
\* hi = mid + width / 2 of the two weighted means, the first candidate when
\* the total weight is 0.  Confidence 1.0 is 10 tenths.
WeightedChoice(branches, sums) ==
    IF sums.total_c = 0 THEN branches[1]
    ELSE [value |-> Interval((sums.mids - sums.widths) \div (2 * sums.total_c),
                             (sums.mids + sums.widths) \div (2 * sums.total_c)),
          confidence |-> 10,
          name |-> "weighted", metaphor |-> "Weighted collapse of branches"]

\* collapse_branches(wb, target_path, method) of syn2, for the methods
\* "max_conf" and "weighted_mean" and for a method that is neither (the
\* first candidate).  chosen is <<>> when the call returns None.
collapse_branches(hi, H, target_path, method) ==
    IF ~target_path.sep \/ ~Has(H.nodes, target_path.ent)
    THEN [ok |-> FALSE, wb |-> H, chosen |-> Nothing]
    ELSE LET branches == HCandidates(Get(H.nodes, target_path.ent), target_path.key)
         IN IF ~branches.ok THEN [ok |-> FALSE, wb |-> H, chosen |-> Nothing]
            ELSE IF branches.list = <<>> THEN [ok |-> TRUE, wb |-> H, chosen |-> Nothing]
            ELSE LET chosen ==
                        IF method = "max_conf" THEN MaxConf(branches.list)
                        ELSE IF method = "weighted_mean"
                        THEN WeightedChoice(branches.list,
                                            WeightedLoop(branches.list, 1, 0, 0, 0))
                        ELSE branches.list[1]
                 IN [ok |-> TRUE,
                     wb |-> Hset_attr(hi, H, target_path, chosen.value, "collapse:" \o method,
                                      "Collapsed from branches via " \o method).wb,
                     chosen |-> Some(chosen)]

\* The event type recent_features reads from the meaning of a history
\* record: "betrayal" or "repair" in the lowered text, betrayal first.
EventType(meaning) ==
    CASE meaning = "Betrayal" -> "betrayal"
      [] meaning = "Repair" -> "repair"
      [] OTHER -> "none"

EventsOf(n) ==
    LET hs == SelectSeq(n.history,
                        LAMBDA h : h.meaning # "" /\ EventType(h.meaning) # "none")
    IN [x \in DOMAIN hs |-> [type |-> EventType(hs[x].meaning), when |-> hs[x].when]]

\* recent_features(wb, node_ids, k): the last k events of the nodes in time
\* order, as the sequence of their types.
recent_features(H, node_ids, k) ==
    LET events == SortSeq(EventsOf(Get(H.nodes, node_ids[1]))
                              \o EventsOf(Get(H.nodes, node_ids[2])),
                          LAMBDA a, b : a.when < b.when)
        n == Len(events)
        recent == SubSeq(events, Max2(1, n - k + 1), n)
    IN [x \in DOMAIN recent |-> recent[x].type]

\* The branch name contextual_collapse prefers for a pattern, "" for none.
Preferred(patt) ==
    LET c_b == Cardinality({x \in DOMAIN patt : patt[x] = "betrayal"})
        c_r == Cardinality({x \in DOMAIN patt : patt[x] = "repair"})
        n == Len(patt)
        tail == IF n >= 3 THEN SubSeq(patt, n - 2, n) ELSE <<>>
    IN IF c_b >= 2 /\ c_r = 0 THEN "pessimistic"
       ELSE IF c_r >= 2 /\ c_b > 0 THEN "hopeful"
       ELSE IF tail \in {<<"betrayal", "repair", "betrayal">>,
                          <<"repair", "betrayal", "repair">>} THEN "cautious"
       ELSE IF c_r >= 2 /\ c_b = 0 THEN "default"
       ELSE ""

\* contextual_collapse that takes the candidate of highest confidence,
\* whatever the recent events are.
contextual_collapse_MaxConf(H, target_path, source_node) ==
    IF ~target_path.sep \/ ~Has(H.nodes, target_path.ent)
    THEN [ok |-> FALSE, wb |-> H, chosen |-> Nothing]
    ELSE LET i == Idx(H.nodes, target_path.ent)
             branches == HCandidates(H.nodes[i], target_path.key)
         IN IF ~branches.ok THEN [ok |-> FALSE, wb |-> H, chosen |-> Nothing]
            ELSE IF branches.list = <<>> THEN [ok |-> TRUE, wb |-> H, chosen |-> Nothing]
            ELSE IF ~Has(H.nodes, source_node)
            THEN [ok |-> FALSE, wb |-> H, chosen |-> Nothing]
            ELSE LET preferred == Preferred(recent_features(
                                      H, <<source_node, target_path.ent>>, 4))
                     named == SelectSeq(branches.list, LAMBDA b : b.name = preferred)
                     chosen == MaxConf(branches.list)
                 IN [ok |-> TRUE,
                     wb |-> [H EXCEPT
                        !.nodes[i].attrs = AttrSet(@, target_path.key, chosen.value),
                        !.nodes[i].history =
                            Append(@, [path |-> target_path, from |-> None,
                                       to |-> chosen.value,
                                       source |-> "collapse:contextual",
                                       meaning |-> "Contextual collapse: " \o chosen.name,
                                       when |-> H.clock + 1]),
                        !.clock = @ + 1], chosen |-> Some(chosen)]

\* contextual_collapse(wb, target_path, source_node) of syn3: the value is
\* stored in n.attrs directly and the history record is written by hand.
contextual_collapse(H, target_path, source_node) ==
    IF ~target_path.sep \/ ~Has(H.nodes, target_path.ent)
    THEN [ok |-> FALSE, wb |-> H, chosen |-> Nothing]
    ELSE LET i == Idx(H.nodes, target_path.ent)
             branches == HCandidates(H.nodes[i], target_path.key)
         IN IF ~branches.ok THEN [ok |-> FALSE, wb |-> H, chosen |-> Nothing]
            ELSE IF branches.list = <<>> THEN [ok |-> TRUE, wb |-> H, chosen |-> Nothing]
            ELSE IF ~Has(H.nodes, source_node)
            THEN [ok |-> FALSE, wb |-> H, chosen |-> Nothing]
            ELSE LET preferred == Preferred(recent_features(
                                      H, <<source_node, target_path.ent>>, 4))
                     named == SelectSeq(branches.list, LAMBDA b : b.name = preferred)
                     chosen == IF preferred # "" /\ named # <<>> THEN named[1]
                               ELSE MaxConf(branches.list)
                 IN [ok |-> TRUE,
                     wb |-> [H EXCEPT
                        !.nodes[i].attrs = AttrSet(@, target_path.key, chosen.value),
                        !.nodes[i].history =
                            Append(@, [path |-> target_path, from |-> None,
                                       to |-> chosen.value,
                                       source |-> "collapse:contextual",
                                       meaning |-> "Contextual collapse: " \o chosen.name,
                                       when |-> H.clock + 1]),
                        !.clock = @ + 1], chosen |-> Some(chosen)]

-----------------------------------------------------------------------------
(* Workbenches to start from.  Each is built by the operations themselves, *)
(* so each is a state the program reaches.                                 *)

NoWhere == NoAttrs

\* The rule of the demos: for every causes edge x -(e)-> y,
\* y.a = val(x.a) * val(e.b).
LinearCause ==
    [name |-> "lin",
     node_patterns |-> <<[type |-> "F", var |-> "x", where |-> NoWhere],
                         [type |-> "F", var |-> "y", where |-> NoWhere]>>,
     edge_patterns |-> <<[type |-> "causes", var |-> "e", where |-> NoWhere, from |-> "x",
                          to |-> "y"]>>,
     actions |-> <<[target |-> Path("{y}", "a"), strength |-> 2,
                    kind |-> "ensure_constraint",
                    expr |-> MulOf(Path("{x}", "a"), Path("{e}", "b")), note |-> "lin"]>>]

\* The same rule with a second action per match.
TwoActions ==
    [LinearCause EXCEPT
        !.name = "two",
        !.actions = Append(@, [target |-> Path("{y}", "c"), strength |-> 2,
                               kind |-> "ensure_constraint", expr |-> ValOf(Path("{x}", "a")),
                               note |-> "two"])]

Define(W, rule) ==
    define_rule(W, rule.name, rule.node_patterns, rule.edge_patterns, rule.actions).wb

\* coffee -> alertness, with the rule defined and not yet run.
SeedChain ==
    LET W1 == create_node(EmptyWB, "F", "n1", [a |-> Interval(2, 4)], "u").wb
        W2 == create_node(W1, "F", "n2", [a |-> Unknown], "u").wb
        W3 == create_edge(W2, "causes", "n1", "n2", NoId, [b |-> Num(3)]).wb
    IN Define(W3, LinearCause)

\* Two constraints of strength 1 pulling one attribute to different values,
\* and a text attribute beside it.
SeedOsc(im) ==
    LET W1 == create_node(EmptyWB, "F", "n1", [a |-> Num(2), t |-> Text], "u").wb
        W2 == create_node(W1, "F", "n2", [a |-> Num(4)], "u").wb
        W3 == assert_constraint(im, W2, Path("n1", "a"), Lit(Num(6)), 2, "", "c1", "u").wb
    IN assert_constraint(im, W3, Path("n1", "a"), ValOf(Path("n2", "a")), 2, "", "c2", "u").wb

Seeds(im) == {EmptyWB, SeedChain, SeedOsc(im)}

-----------------------------------------------------------------------------
(* Actions: one per public operation, applied to the workbench object h.   *)

Called(op, h, ok, args, ret) ==
    /\ budget > 0
    /\ budget' = budget - 1
    /\ last' = [ok |-> ok, op |-> op, h |-> h, args |-> args, ret |-> ret]
    /\ UNCHANGED <<impl, hy, himpl>>

Apply(op, h, r, args, ret) ==
    /\ Called(op, h, r.ok, args, ret)
    /\ mem' = Write(mem, h, r.wb)

CreateNode(h, IDS) ==
    /\ Live(mem, h)
    /\ \E id \in IDS, attrs \in {NoAttrs} :
        LET r == create_node(Read(mem, h), "F", id, attrs, "u")
        IN Apply("create_node", h, r, [id |-> id], [id |-> r.id])

CreateEdge(h, ENDS, IDS) ==
    /\ Live(mem, h)
    /\ \E from_id \in ENDS, id \in IDS :
        LET r == create_edge(Read(mem, h), "causes", from_id, "n2", id, [b |-> Num(3)])
        IN Apply("create_edge", h, r, [id |-> id, from_id |-> from_id, to_id |-> "n2"],
                 [id |-> r.id])

SetAttr(h, PATHS, VALUES) ==
    /\ Live(mem, h)
    /\ \E target \in PATHS, value \in VALUES, confidence \in {Nothing} :
        LET r == set_attr(Read(mem, h), target, value, confidence)
        IN Apply("set_attr", h, r, [target |-> target, value |-> value], <<>>)

AssertConstraint(h, IDS, TARGETS, EXPRS, STRENGTHS) ==
    /\ Live(mem, h)
    /\ \E id \in IDS, target \in TARGETS, expr \in EXPRS, strength \in STRENGTHS :
        LET r == assert_constraint(impl, Read(mem, h), target, expr, strength, "", id, "u")
        IN Apply("assert_constraint", h, r,
                 [target |-> target, strength |-> strength, id |-> id, expr |-> expr],
                 [id |-> r.id])

UpsertConstraint(h, IDS, TARGETS, EXPRS) ==
    /\ Live(mem, h)
    /\ \E id \in IDS \ {NoId}, target \in TARGETS, expr \in EXPRS :
        LET r == upsert_constraint(Read(mem, h), id, target, expr, 2, "")
        IN Apply("upsert_constraint", h, r, [id |-> id], [id |-> r.id])

RemoveConstraint(h) ==
    /\ Live(mem, h)
    /\ impl = "s0"
    /\ \E id \in {"c1", "zz"} :
        LET r == remove_constraint(Read(mem, h), id)
        IN Apply("remove_constraint", h, r, [id |-> id], [removed |-> r.removed])

DefineRule(h, RULES) ==
    /\ Live(mem, h)
    /\ \E rule \in RULES :
        LET r == define_rule(Read(mem, h), rule.name, rule.node_patterns,
                             rule.edge_patterns, rule.actions)
        IN Apply("define_rule", h, r, [name |-> rule.name], <<>>)

RunRules(h, LIMITS) ==
    /\ Live(mem, h)
    /\ \E limit \in LIMITS :
        LET r == run_rules(impl, Read(mem, h), limit)
        IN Apply("run_rules", h, r, [limit |-> limit], [applied |-> r.applied])

PropagateOnce(h) ==
    /\ Live(mem, h)
    /\ LET r == propagate_once(Read(mem, h))
       IN Apply("propagate_once", h, r, <<>>, [count |-> r.count, delta |-> r.delta])

Simulate(h, ARGS) ==
    /\ Live(mem, h)
    /\ \E a \in ARGS :
        /\ impl = "s3" => a[3] = Nothing
        /\ LET ticks == a[1]
               until_delta == a[2]
               max_steps == a[3]
               r == simulate(impl, Read(mem, h), ticks, until_delta, max_steps)
           IN Apply("simulate", h, r,
                    [max_steps |-> max_steps, ticks |-> ticks, until_delta |-> until_delta],
                    [steps |-> r.steps, busy |-> r.busy, trace |-> r.trace,
                     passes |-> r.passes, total_updates |-> r.total_updates,
                     why |-> r.why])

Snapshot(h) ==
    /\ Live(mem, h)
    /\ impl = "s0"
    /\ LET r == snapshot(Read(mem, h))
       IN Apply("snapshot", h, r, <<>>, [version |-> r.version])

Revert(h) ==
    /\ Live(mem, h)
    /\ impl = "s0"
    /\ \E version \in {mem.ver[h] - 1, mem.ver[h]} :
        LET r == revert(Read(mem, h), version)
        IN Apply("revert", h, r, [version |-> version], <<>>)

QueryAttr(h, PATHS) ==
    /\ Live(mem, h)
    /\ \E path \in PATHS :
        LET r == query_attr(Read(mem, h), path)
        IN Apply("query_attr", h, r, [path |-> path], [value |-> r.value])

Explain(h, PATHS) ==
    /\ Live(mem, h)
    /\ \E path \in PATHS :
        LET r == explain(Read(mem, h), path)
        IN Apply("explain", h, r, [path |-> path], [contributors |-> r.contributors])

Diff(h) ==
    /\ Live(mem, h)
    /\ \E since_version \in {-1, 0, 1, mem.ver[h], mem.ver[h] + 1} :
        LET r == diff(Read(mem, h), since_version)
        IN Apply("diff", h, r, [since_version |-> since_version], [diffs |-> r.diffs])

\* val(path): a read, nothing is written.
Val(h, PATHS) ==
    /\ Live(mem, h)
    /\ \E path \in PATHS :
        /\ Called("val", h, TRUE, [path |-> path], [value |-> val(Read(mem, h), path)])
        /\ UNCHANGED mem

RunCommands(h, BATCHES) ==
    /\ Live(mem, h)
    /\ \E jsonl \in BATCHES :
        LET r == run_commands(impl, Read(mem, h), jsonl)
        IN Apply("run_commands", h, r, [jsonl |-> jsonl], [outputs |-> r.outputs])

Fork ==
    /\ impl = "s3"
    /\ Called("fork", "base", TRUE, <<>>, <<>>)
    /\ mem' = fork(mem, "base", "f")

CompareScenarios(h, SCENARIOS, QUERIES, KWARGS) ==
    /\ Live(mem, h)
    /\ impl = "s3"
    /\ \E scenarios \in SCENARIOS, simulate_kwargs \in KWARGS :
        LET r == compare_scenarios(impl, mem, h, scenarios, QUERIES, simulate_kwargs)
        IN /\ Called("compare_scenarios", h, r.ok, [scenarios |-> scenarios],
                     [rows |-> r.rows])
           /\ mem' = r.mem

-----------------------------------------------------------------------------
(* The core workbench, one object, every operation.                        *)

NoCall == [ok |-> TRUE, op |-> "init", h |-> "base", args |-> <<>>, ret |-> <<>>]

Init ==
    /\ impl \in {"s0", "s3"}
    /\ mem \in {NewMem(W) : W \in Seeds(impl)}
    /\ last = NoCall
    /\ budget = MaxOps
    /\ hy = EmptyHWB
    /\ himpl = "syn2"

\* The arguments are chosen so that every call is tried on present and on
\* absent ids and paths; simulate takes <<ticks, until_delta, max_steps>>.
Next ==
    \/ CreateNode("base", {"n1", "n3", NoId})
    \/ CreateEdge("base", {"n1", "zz"}, {NoId, "n1->n2:causes"})
    \/ SetAttr("base", {Path("n1", "a"), Path("zz", "a"), NoSepPath}, {Num(8), Text})
    \/ AssertConstraint("base", {"c1", NoId}, {Path("n1", "a")},
                        {Lit(Num(8)), ValOf(Path("n1", "t"))}, {1})
    \/ UpsertConstraint("base", {"c1"}, {Path("n1", "a")}, {Lit(Num(8))})
    \/ RemoveConstraint("base")
    \/ DefineRule("base", {LinearCause, TwoActions})
    \/ RunRules("base", {Nothing, Some(0), Some(1)})
    \/ PropagateOnce("base")
    \/ Simulate("base", {<<3, 0, Nothing>>, <<3, 2, Nothing>>, <<1, 0, Nothing>>,
                         <<3, 0, Some(2)>>, <<0, 0, Some(2)>>, <<1, 0, Some(2)>>})
    \/ Snapshot("base")
    \/ Revert("base")
    \/ QueryAttr("base", {Path("n1", "a")})
    \/ Explain("base", {Path("n1", "a")})
    \/ Diff("base")
    \/ Val("base", {Path("n1", "a"), Path("zz", "a"), NoSepPath})

Spec == Init /\ [][Next]_vars

-----------------------------------------------------------------------------
(* A workbench and its fork (s3): every operation on either object.        *)

\* A batch line per kind of line.
CmdCreate ==
    [id |-> "n3", attrs |-> NoAttrs, op |-> "create_node", kind |-> "call",
     type |-> "F", uuid |-> "u"]
CmdSet ==
    [target |-> Path("n1", "a"), op |-> "set_attr", kind |-> "call", value |-> Num(8),
     confidence |-> Nothing]
CmdSetMissing ==
    [target |-> Path("zz", "a"), op |-> "set_attr", kind |-> "call", value |-> Num(8),
     confidence |-> Nothing]
CmdUnknown == [op |-> "frobnicate", kind |-> "call"]
CmdMalformed == [op |-> "", kind |-> "malformed"]
CmdNoOp == [op |-> "", kind |-> "noop"]
CmdBlank == [op |-> "", kind |-> "blank"]

ForkBatches == {<<CmdSet, CmdUnknown, CmdCreate>>, <<CmdCreate, CmdMalformed, CmdSet>>}

\* Scenario lists for compare_scenarios: an empty baseline, a change, a batch
\* with a failing and an unknown op, a batch with a malformed line.
ScenarioArgs ==
    {<<[name |-> "baseline", jsonl |-> <<>>],
       [name |-> "change", jsonl |-> <<CmdSet>>]>>,
     <<[name |-> "failing", jsonl |-> <<CmdSetMissing, CmdUnknown, CmdSet>>]>>,
     <<[name |-> "malformed", jsonl |-> <<CmdSet, CmdMalformed>>]>>}

KwargArgs == {Nothing, Some([ticks |-> 3, until_delta |-> 0])}

ForkHandles == {"base", "f"}

InitFork ==
    /\ impl = "s3"
    /\ mem \in {NewMem(SeedChain), NewMem(SeedOsc("s3"))}
    /\ last = NoCall
    /\ budget = MaxForkOps
    /\ hy = EmptyHWB
    /\ himpl = "syn2"

NextFork ==
    \/ Fork
    \/ \E h \in ForkHandles : CreateNode(h, {"n3"})
    \/ \E h \in ForkHandles : CreateEdge(h, {"n1"}, {NoId})
    \/ \E h \in ForkHandles : SetAttr(h, {Path("n1", "a")}, {Num(8)})
    \/ \E h \in ForkHandles : UpsertConstraint(h, {"c1"}, {Path("n1", "a")}, {Lit(Num(8))})
    \/ \E h \in ForkHandles : DefineRule(h, {TwoActions})
    \/ \E h \in ForkHandles : RunRules(h, {Nothing})
    \/ \E h \in ForkHandles : Simulate(h, {<<3, 0, Nothing>>})
    \/ \E h \in ForkHandles : RunCommands(h, ForkBatches)
    \/ \E h \in ForkHandles :
          CompareScenarios(h, ScenarioArgs, <<Path("n1", "a"), Path("n2", "a")>>, KwargArgs)

SpecFork == InitFork /\ [][NextFork]_vars

-----------------------------------------------------------------------------
(* The command runner alone, on every batch of up to MaxBatchLen lines.    *)

BatchCmds ==
    {CmdCreate, CmdSet, CmdSetMissing, CmdUnknown, CmdMalformed, CmdNoOp, CmdBlank}

Batches == UNION {[1 .. n -> BatchCmds] : n \in 0 .. MaxBatchLen}

InitBatch ==
    /\ impl \in {"s0", "s3"}
    /\ mem = NewMem(SeedChain)
    /\ last = NoCall
    /\ budget = 1
    /\ hy = EmptyHWB
    /\ himpl = "syn2"

NextBatch == RunCommands("base", Batches)

SpecBatch == InitBatch /\ [][NextBatch]_vars

-----------------------------------------------------------------------------
(* The hybrid workbenches.                                                 *)

HSeed(hi) ==
    LET H1 == Hcreate_node(hi, EmptyHWB, "Agent", "human", NoAttrs, "u").wb
        H2 == Hcreate_node(hi, H1, "Phenomenon", "emergence", NoAttrs, "u").wb
    IN Hset_attr(hi, H2, Path("human", "trust"), Interval(4, 7), "initial", "Grounded").wb

HPathArgs ==
    {Path("human", "trust"), Path("emergence", "trust"), Path("zz", "trust"), NoSepPath}

HCalled(op, ok, args, ret) ==
    /\ budget > 0
    /\ budget' = budget - 1
    /\ last' = [ok |-> ok, op |-> op, h |-> "hy", args |-> args, ret |-> ret]
    /\ UNCHANGED <<mem, impl, himpl>>

HCreateNode ==
    \E id \in {"human", "n9", NoId}, attrs \in {NoAttrs, [trust |-> Num(2)]} :
        LET r == Hcreate_node(himpl, hy, "Agent", id, attrs, "u")
        IN /\ HCalled("create_node", r.ok, [id |-> id], [id |-> r.id])
           /\ hy' = r.wb

HSetAttr ==
    \E path \in HPathArgs, value \in {Num(6), Unknown, Interval(6, 8)},
       meaning \in {"", "Repair"} :
        LET r == Hset_attr(himpl, hy, path, value, "set", meaning)
        IN /\ HCalled("set_attr", r.ok, [path |-> path, value |-> value], <<>>)
           /\ hy' = r.wb

HVal ==
    \E path \in HPathArgs :
        LET r == Hval(himpl, hy, path)
        IN /\ HCalled("val", r.ok, [path |-> path], [value |-> r.v])
           /\ UNCHANGED hy

InitHybrid ==
    /\ himpl \in {"syn2", "syn3"}
    /\ hy \in {EmptyHWB, HSeed(himpl)}
    /\ last = NoCall
    /\ budget = MaxOps
    /\ impl = "s0"
    /\ mem = NewMem(EmptyWB)

NextHybrid == HCreateNode \/ HSetAttr \/ HVal

SpecHybrid == InitHybrid /\ [][NextHybrid]_vars

-----------------------------------------------------------------------------
(* The rule matcher on small graphs: three nodes, up to MaxMatchEdges      *)
(* edges of two types between any two of them, and rules of every shape.   *)

NodePat(var, type, where) == [type |-> type, var |-> var, where |-> where]
EdgePat(var, type, from, to) ==
    [type |-> type, var |-> var, where |-> NoWhere, from |-> from, to |-> to]
MatchRuleOf(name, node_patterns, edge_patterns) ==
    [id |-> name, node_patterns |-> node_patterns, edge_patterns |-> edge_patterns,
     actions |-> <<>>]

\* Rules whose edge patterns name declared node variables only.
DeclaredRules ==
    {MatchRuleOf("declared", <<NodePat("x", "F", NoWhere), NodePat("y", "F", NoWhere)>>,
                 <<EdgePat("e", "causes", "x", "y")>>),
     MatchRuleOf("chain", <<NodePat("x", NoType, NoWhere), NodePat("y", NoType, NoWhere),
                            NodePat("z", NoType, NoWhere)>>,
                 <<EdgePat("e", NoType, "x", "y"), EdgePat("f", NoType, "y", "z")>>),
     MatchRuleOf("parallel", <<NodePat("x", NoType, NoWhere),
                               NodePat("y", NoType, NoWhere)>>,
                 <<EdgePat("e", "causes", "x", "y"), EdgePat("f", NoType, "x", "y")>>),
     MatchRuleOf("where", <<NodePat("x", NoType, [a |-> Num(2)]),
                            NodePat("y", "F", NoWhere)>>,
                 <<EdgePat("e", NoType, "x", NoVar)>>),
     MatchRuleOf("nodes", <<NodePat("x", "F", NoWhere), NodePat("y", "G", NoWhere)>>,
                 <<>>)}

\* Rules with a variable that an edge pattern is the first to bind.
EdgeBoundRules ==
    {MatchRuleOf("half", <<NodePat("x", "F", NoWhere)>>,
                 <<EdgePat("e", "causes", "x", "y")>>),
     MatchRuleOf("edges", <<>>, <<EdgePat("e", NoType, "x", "y")>>),
     MatchRuleOf("path", <<>>,
                 <<EdgePat("e", NoType, "x", "y"), EdgePat("f", NoType, "y", "z")>>)}

MatchEdgeArgs ==
    {[type |-> t, from_id |-> a, to_id |-> b] :
        t \in {"causes", "blocks"}, a \in {"n1", "n2", "n3"}, b \in {"n1", "n2", "n3"}}

RECURSIVE AddEdges(_, _, _)
AddEdges(W, es, i) ==
    IF i > Len(es) THEN W
    ELSE AddEdges(create_edge(W, es[i].type, es[i].from_id, es[i].to_id, NoId,
                              NoAttrs).wb, es, i + 1)

\* The graph built by three create_node calls and one create_edge per edge.
GraphOf(type3, es) ==
    LET W1 == create_node(EmptyWB, "F", "n1", [a |-> Num(2)], "u").wb
        W2 == create_node(W1, "F", "n2", [a |-> Num(4)], "u").wb
        W3 == create_node(W2, type3, "n3", [a |-> Num(2)], "u").wb
    IN AddEdges(W3, es, 1)

MatchRule(h, RULES) ==
    /\ Live(mem, h)
    /\ \E rule \in RULES :
        /\ Called("match_rule", h, TRUE, [rule |-> rule],
                  match_rule(impl, Read(mem, h), rule))
        /\ UNCHANGED mem

InitMatch ==
    /\ impl \in {"s0", "s3"}
    /\ \E type3 \in {"F", "G"}, n \in 0..MaxMatchEdges :
          \E es \in [1..n -> MatchEdgeArgs] : mem = NewMem(GraphOf(type3, es))
    /\ last = NoCall
    /\ budget = 1
    /\ hy = EmptyHWB
    /\ himpl = "syn2"

NextMatch == MatchRule("base", DeclaredRules) \/ MatchRule("base", EdgeBoundRules)

SpecMatch == InitMatch /\ [][NextMatch]_vars

-----------------------------------------------------------------------------
(* A rule whose match depends on an attribute: n1 -(causes)-> n2, and the  *)
(* rule binds x to a node with on = 1 only.                                *)

gated ==
    [name |-> "gated",
     node_patterns |-> <<[type |-> "F", var |-> "x", where |-> [on |-> Num(1)]],
                         [type |-> "F", var |-> "y", where |-> NoWhere]>>,
     edge_patterns |-> <<[type |-> "causes", var |-> "e", where |-> NoWhere, from |-> "x",
                          to |-> "y"]>>,
     actions |-> <<[target |-> Path("{y}", "a"), strength |-> 2,
                    kind |-> "ensure_constraint",
                    expr |-> MulOf(Path("{x}", "a"), Path("{e}", "b")), note |-> "gated"]>>]

SeedGated ==
    LET W1 == create_node(EmptyWB, "F", "n1", [a |-> Interval(2, 4), on |-> Num(1)],
                          "u").wb
        W2 == create_node(W1, "F", "n2", [a |-> Unknown], "u").wb
        W3 == create_edge(W2, "causes", "n1", "n2", NoId, [b |-> Num(3)]).wb
    IN Define(W3, gated)

InitStale ==
    /\ impl \in {"s0", "s3"}
    /\ mem \in {NewMem(SeedGated), NewMem(run_rules(impl, SeedGated, Nothing).wb)}
    /\ last = NoCall
    /\ budget = MaxStaleOps
    /\ hy = EmptyHWB
    /\ himpl = "syn2"

NextStale ==
    \/ RunRules("base", {Nothing})
    \/ SetAttr("base", {Path("n1", "on")}, {Num(0), Num(1)})
    \/ SetAttr("base", {Path("n1", "a")}, {Interval(4, 6)})
    \/ PropagateOnce("base")

SpecStale == InitStale /\ [][NextStale]_vars

-----------------------------------------------------------------------------
(* The stores of nodes, edges and constraints under create, remove,        *)
(* snapshot and revert: edges between any two ids, revert to any snapshot. *)

CreateEdgeBetween(h, FROMS, TOS, IDS) ==
    /\ Live(mem, h)
    /\ \E from_id \in FROMS, to_id \in TOS, id \in IDS :
        /\ budget > 0
        /\ LET r == create_edge(Read(mem, h), "causes", from_id, to_id, id, NoAttrs)
           IN Apply("create_edge", h, r,
                    [id |-> id, from_id |-> from_id, to_id |-> to_id], [id |-> r.id])

RevertTo(h) ==
    /\ Live(mem, h)
    /\ impl = "s0"
    /\ \E version \in DOMAIN Read(mem, h).snapshots \cup {mem.ver[h]} :
        /\ budget > 0
        /\ LET r == revert(Read(mem, h), version)
           IN Apply("revert", h, r, [version |-> version], <<>>)

InitStore ==
    /\ impl \in {"s0", "s3"}
    /\ mem \in {NewMem(W) : W \in Seeds(impl)}
    /\ last = NoCall
    /\ budget = MaxStoreOps
    /\ hy = EmptyHWB
    /\ himpl = "syn2"

NextStore ==
    \/ CreateNode("base", {"n3"})
    \/ CreateEdgeBetween("base", {"n1", "n3", "zz"}, {"n2", "n3", "zz"}, {NoId, "e1"})
    \/ RemoveConstraint("base")
    \/ Snapshot("base")
    \/ RevertTo("base")

SpecStore == InitStore /\ [][NextStore]_vars

-----------------------------------------------------------------------------
(* explain on a store whose constraints come, go and move their targets.   *)

InitExplain ==
    /\ impl \in {"s0", "s3"}
    /\ mem = NewMem(SeedOsc(impl))
    /\ last = NoCall
    /\ budget = MaxExplainOps
    /\ hy = EmptyHWB
    /\ himpl = "syn2"

NextExplain ==
    \/ AssertConstraint("base", {"c1", "c3"}, {Path("n1", "a"), Path("n2", "a")},
                        {Lit(Num(8)), ValOf(Path("n1", "a"))}, {2})
    \/ RemoveConstraint("base")
    \/ SetAttr("base", {Path("n2", "a")}, {Num(8), Unknown})
    \/ PropagateOnce("base")
    \/ Explain("base", {Path("n1", "a"), Path("n2", "a"), Path("zz", "a"), NoSepPath})

SpecExplain == InitExplain /\ [][NextExplain]_vars

-----------------------------------------------------------------------------
(* HybridWorkbench of gpt5-synthesis-1.py: nodes with semantics and        *)
(* history, edges, constraints with a metaphor and a guard (cautious_on,   *)
(* cautious_factor, cautious_when_gt).  cautious_factor counts halves, and *)
(* so does the strength a tick applies.                                    *)

EmptyYWB ==
    [nodes |-> <<>>, edges |-> <<>>, constraints |-> <<>>, version |-> 0,
     provenance |-> <<>>, clock |-> 0]

\* HybridWorkbench._bump
YBump(Y, op) == [Y EXCEPT !.version = @ + 1, !.provenance = Append(@, [op |-> op])]

\* HybridWorkbench.create_node
Ycreate_node(Y, type, id, attrs) ==
    IF Has(Y.nodes, id) THEN [ok |-> FALSE, wb |-> Y]
    ELSE [ok |-> TRUE,
          wb |-> YBump([Y EXCEPT !.nodes =
                           Append(@, [id |-> id, attrs |-> attrs, type |-> type,
                                      semantics |-> <<>>, history |-> <<>>])],
                       "create_node")]

\* HybridWorkbench.create_edge
Ycreate_edge(Y, type, from_id, to_id, id, attrs) ==
    IF ~Has(Y.nodes, from_id) \/ ~Has(Y.nodes, to_id) \/ Has(Y.edges, id)
    THEN [ok |-> FALSE, wb |-> Y]
    ELSE [ok |-> TRUE,
          wb |-> YBump([Y EXCEPT !.edges =
                           Append(@, [id |-> id, attrs |-> attrs, type |-> type,
                                      from_id |-> from_id, to_id |-> to_id,
                                      semantics |-> <<>>])],
                       "create_edge")]

\* HybridWorkbench.assert_constraint: self.constraints[id] = Constraint(...)
Yassert_constraint(Y, c) ==
    [ok |-> TRUE, wb |-> YBump([Y EXCEPT !.constraints = Put(@, c)], "assert_constraint")]

\* set_val that writes history only when a meaning is given.
Yset_val_GlossOnly(Y, path, value, source, meaning) ==
    IF ~resolve_container(Y, path).ok THEN [ok |-> FALSE, wb |-> Y]
    ELSE IF resolve_container(Y, path).kind = "edge"
    THEN [ok |-> TRUE,
          wb |-> [Y EXCEPT !.edges[Idx(Y.edges, path.ent)].attrs =
                                AttrSet(@, path.key, value)]]
    ELSE LET i == Idx(Y.nodes, path.ent)
             old == AttrGet(Y.nodes[i].attrs, path.key, None)
         IN [ok |-> TRUE,
             wb |-> [Y EXCEPT
                        !.nodes[i].attrs = AttrSet(@, path.key, value),
                        !.nodes[i].history =
                            IF meaning # ""
                            THEN Append(@, [path |-> path, from |-> old, to |-> value,
                                            source |-> source, meaning |-> meaning,
                                            when |-> Y.clock + 1])
                            ELSE @,
                        !.nodes[i].semantics =
                            IF meaning # "" THEN Append(@, meaning) ELSE @,
                        !.clock = @ + 1]]

\* HybridWorkbench.set_val: history and semantics on nodes only, no bump.
Yset_val(Y, path, value, source, meaning) ==
    IF ~resolve_container(Y, path).ok THEN [ok |-> FALSE, wb |-> Y]
    ELSE IF resolve_container(Y, path).kind = "edge"
    THEN [ok |-> TRUE,
          wb |-> [Y EXCEPT !.edges[Idx(Y.edges, path.ent)].attrs =
                                AttrSet(@, path.key, value)]]
    ELSE LET i == Idx(Y.nodes, path.ent)
             old == AttrGet(Y.nodes[i].attrs, path.key, None)
         IN [ok |-> TRUE,
             wb |-> [Y EXCEPT
                        !.nodes[i].attrs = AttrSet(@, path.key, value),
                        !.nodes[i].history =
                            Append(@, [path |-> path, from |-> old, to |-> value,
                                       source |-> source, meaning |-> meaning,
                                       when |-> Y.clock + 1]),
                        !.nodes[i].semantics =
                            IF meaning # "" THEN Append(@, meaning) ELSE @,
                        !.clock = @ + 1]]

\* The strength propagate_once applies for a constraint: c.strength, times
\* c.cautious_factor when the guard triggers.  cond_val > c.cautious_when_gt
\* raises TypeError for a cond_val that is no number.
AppliedStrength(Y, c) ==
    IF c.cautious_on = Nothing THEN [strength |-> c.strength, ok |-> TRUE]
    ELSE LET cond_val == val(Y, The(c.cautious_on))
         IN IF cond_val = None THEN [strength |-> c.strength, ok |-> TRUE]
            ELSE IF c.cautious_when_gt = Nothing
            THEN [strength |-> (c.strength * c.cautious_factor) \div 2, ok |-> TRUE]
            ELSE IF cond_val.k # "num" THEN [strength |-> c.strength, ok |-> FALSE]
            ELSE IF cond_val.lo > The(c.cautious_when_gt)
            THEN [strength |-> (c.strength * c.cautious_factor) \div 2, ok |-> TRUE]
            ELSE [strength |-> c.strength, ok |-> TRUE]

\* The write of one update of propagate_once.
YStoreUpdate(Y, c, old, blended) ==
    IF resolve_container(Y, c.target).kind = "edge"
    THEN [Y EXCEPT !.edges[Idx(Y.edges, c.target.ent)].attrs =
                        AttrSet(@, c.target.key, blended)]
    ELSE [Y EXCEPT
            !.nodes[Idx(Y.nodes, c.target.ent)].attrs = AttrSet(@, c.target.key, blended),
            !.nodes[Idx(Y.nodes, c.target.ent)].history =
                Append(@, [path |-> c.target, from |-> old, to |-> blended,
                           source |-> "constraint:" \o c.id,
                           meaning |-> IF c.metaphor # "" THEN c.metaphor ELSE c.note,
                           when |-> Y.clock + 1]),
            !.nodes[Idx(Y.nodes, c.target.ent)].semantics =
                IF c.metaphor # "" THEN Append(@, c.metaphor) ELSE @,
            !.clock = @ + 1]

\* The loop of HybridWorkbench.propagate_once over the constraints.  The
\* guard test and blend are outside any try.
RECURSIVE YPropLoop(_, _, _, _)
YPropLoop(Y, i, updates, delta) ==
    IF i > Len(Y.constraints)
    THEN [ok |-> TRUE, wb |-> YBump(Y, "propagate_once"), delta |-> delta,
          updates |-> updates]
    ELSE LET c == Y.constraints[i]
             new_val == safe_eval(Y, c.expr)
             s == AppliedStrength(Y, c)
         IN IF new_val = None THEN YPropLoop(Y, i + 1, updates, delta)
            ELSE IF ~s.ok
            THEN [ok |-> FALSE, wb |-> Y, delta |-> delta, updates |-> updates]
            ELSE IF ~resolve_container(Y, c.target).ok
            THEN YPropLoop(Y, i + 1, updates, delta)
            ELSE LET old == AttrGet(AttrsAt(Y, c.target), c.target.key, Unknown)
                     b == blend_syn1(old, new_val, s.strength)
                 IN IF ~b.ok
                    THEN [ok |-> FALSE, wb |-> Y, delta |-> delta, updates |-> updates]
                    ELSE IF Differs(old, b.v)
                    THEN YPropLoop(YStoreUpdate(Y, c, old, b.v), i + 1,
                                   Append(updates, [target |-> c.target,
                                                    value |-> b.v, constraint |-> c.id,
                                                    applied_strength |-> s.strength]),
                                   delta + UpdateDelta(old, b.v))
                    ELSE YPropLoop(Y, i + 1, updates, delta)

\* HybridWorkbench.propagate_once
Ypropagate_once(Y) == YPropLoop(Y, 1, <<>>, 0)

\* A constraint that pulls emergence.trust to val('human.trust'), guarded
\* by human.betrayals.
Guarded(cautious_on, cautious_factor, cautious_when_gt) ==
    [target |-> Path("emergence", "trust"), strength |-> 2,
     id |-> "c1", expr |-> ValOf(Path("human", "trust")), note |-> "flow",
     metaphor |-> "Trust flows", cautious_on |-> cautious_on,
     cautious_when_gt |-> cautious_when_gt, cautious_factor |-> cautious_factor]

\* human -(relates)-> emergence with the guarded constraint asserted.
SeedGuard(c) ==
    LET Y1 == Ycreate_node(EmptyYWB, "Agent", "human", [trust |-> Interval(4, 12)]).wb
        Y2 == Ycreate_node(Y1, "Phenomenon", "emergence",
                           [trust |-> Interval(0, 4)]).wb
        Y3 == Ycreate_edge(Y2, "relates", "human", "emergence", "rel", NoAttrs).wb
    IN Yassert_constraint(Y3, c).wb

\* <<path, value, meaning>> of the set_val calls tried: every kind of value
\* on the watched path, node and edge paths, paths that do not resolve.
SetValArgs ==
    {<<Path("human", "betrayals"), v, "">> :
        v \in {Num(0), Num(2), Interval(0, 4), Unknown}}
    \cup {<<Path("emergence", "trust"), Num(2), m>> : m \in {"", "Betrayal"}}
    \cup {<<Path("rel", "w"), Num(2), "Betrayal">>, <<Path("zz", "trust"), Num(2), "">>,
          <<NoSepPath, Num(2), "">>}

YSetVal ==
    \E a \in SetValArgs :
        /\ budget > 0
        /\ LET r == Yset_val(hy, a[1], a[2], "event", a[3])
           IN /\ HCalled("set_val", r.ok,
                         [path |-> a[1], value |-> a[2], source |-> "event",
                          meaning |-> a[3]], <<>>)
              /\ hy' = r.wb

YPropagateOnce ==
    /\ budget > 0
    /\ LET r == Ypropagate_once(hy)
       IN /\ HCalled("propagate_once", r.ok, <<>>,
                     [count |-> Len(r.updates), delta |-> r.delta, updates |-> r.updates])
          /\ hy' = r.wb

InitGuard ==
    /\ himpl = "syn1"
    /\ \E cautious_on \in {Nothing, Some(Path("human", "betrayals"))},
          cautious_factor \in {0, 1},
          cautious_when_gt \in {Nothing, Some(1)} :
            hy = SeedGuard(Guarded(cautious_on, cautious_factor, cautious_when_gt))
    /\ last = NoCall
    /\ budget = MaxGuardOps
    /\ impl = "s0"
    /\ mem = NewMem(EmptyWB)

NextGuard == YSetVal \/ YPropagateOnce

SpecGuard == InitGuard /\ [][NextGuard]_vars

-----------------------------------------------------------------------------
(* Branching and collapsing on the hybrid workbenches: the demo's nodes     *)
(* "human" and "emergence", hypotheses about emergence.trust taken from     *)
(* human.trust.                                                            *)

\* human.trust is set; emergence.trust is committed when prior is not None.
HSeedBranch(hi, prior) ==
    LET H1 == Hcreate_node(hi, EmptyHWB, "Agent", "human", NoAttrs, "u").wb
        H2 == Hcreate_node(hi, H1, "Phenomenon", "emergence", NoAttrs, "u").wb
        H3 == Hset_attr(hi, H2, Path("human", "trust"), Interval(10, 20), "initial",
                        "Grounded").wb
    IN IF prior = None THEN H3
       ELSE Hset_attr(hi, H3, Path("emergence", "trust"), prior, "initial", "").wb

HTargetArgs ==
    {Path("emergence", "trust"), Path("emergence", "branches"), Path("zz", "trust"),
     NoSepPath}

HFork ==
    \E source_path \in {Path("human", "trust"), Path("human", "mood")},
       target_path \in HTargetArgs,
       context \in {<<"betrayal">>, <<"repair">>, <<>>} :
        /\ budget > 0
        /\ LET r == fork_metaphors(himpl, hy, source_path, target_path, context)
           IN /\ HCalled("fork_metaphors", r.ok,
                         [path |-> target_path, source |-> source_path,
                          context |-> context], r.out)
              /\ hy' = r.wb

HCollapse ==
    \E target_path \in HTargetArgs, method \in {"max_conf", "first"} :
        /\ budget > 0
        /\ himpl = "syn2"
        /\ LET r == collapse_branches(himpl, hy, target_path, method)
           IN /\ HCalled("collapse", r.ok, [path |-> target_path, policy |-> method],
                         r.chosen)
              /\ hy' = r.wb

HContextualCollapse ==
    \E target_path \in HTargetArgs, source_node \in {"human", "zz"} :
        /\ budget > 0
        /\ himpl = "syn3"
        /\ LET r == contextual_collapse(hy, target_path, source_node)
           IN /\ HCalled("collapse", r.ok,
                         [path |-> target_path, policy |-> "contextual"], r.chosen)
              /\ hy' = r.wb

\* set_attr with a meaning that recent_features reads as an event.
HSetAttrEvent ==
    \E meaning \in {"Betrayal", "Repair"} :
        /\ budget > 0
        /\ LET r == Hset_attr(himpl, hy, Path("human", "trust"), Interval(10, 20),
                              "event", meaning)
           IN /\ HCalled("set_attr", r.ok, [path |-> Path("human", "trust"),
                                            value |-> Interval(10, 20)], <<>>)
              /\ hy' = r.wb

InitBranch ==
    /\ himpl \in {"syn2", "syn3"}
    /\ hy \in {HSeedBranch(himpl, prior) : prior \in {None, Num(30)}}
    /\ last = NoCall
    /\ budget = MaxBranchOps
    /\ impl = "s0"
    /\ mem = NewMem(EmptyWB)

NextBranch == HFork \/ HCollapse \/ HContextualCollapse \/ HSetAttrEvent

SpecBranch == InitBranch /\ [][NextBranch]_vars

-----------------------------------------------------------------------------
(* Collapse by weighted mean (gpt5-synthesis-2.py), on candidate lists     *)
(* that hold Intervals, numbers and text with confidences 0, 0.3 and 0.7.  *)

\* A candidate as apply_metaphor_fork records it.
Candidate(value, confidence) ==
    BranchEntry("syn2", [confidence |-> confidence, name |-> "given", metaphor |-> "Given"],
                value, None, <<>>, 0)

CandidateLists ==
    LET cs == {Candidate(v, c) : v \in {Interval(2, 6), Num(8), Text}, c \in {0, 3, 7}}
    IN UNION {[1..n -> cs] : n \in 1..MaxCands}

\* The demo's nodes, with a candidate list stored under emergence.branches.
HSeedWeighted(list) ==
    Hset_attr("syn2", HSeedBranch("syn2", None), Path("emergence", "branches"),
              BranchDict([trust |-> list]), "initial", "").wb

HCollapseWeighted ==
    \E target_path \in HTargetArgs :
        /\ budget > 0
        /\ LET r == collapse_branches(himpl, hy, target_path, "weighted_mean")
           IN /\ HCalled("collapse", r.ok,
                         [path |-> target_path, policy |-> "weighted_mean"], r.chosen)
              /\ hy' = r.wb

InitWeighted ==
    /\ himpl = "syn2"
    /\ hy \in {HSeedWeighted(list) : list \in CandidateLists}
    /\ last = NoCall
    /\ budget = MaxWeightedOps
    /\ impl = "s0"
    /\ mem = NewMem(EmptyWB)

NextWeighted == HFork \/ HCollapseWeighted

SpecWeighted == InitWeighted /\ [][NextWeighted]_vars

-----------------------------------------------------------------------------
(* Contextual collapse (gpt5-synthesis-3.py) after a history of betrayal   *)
(* and repair events on human.trust, as in the demo.                       *)

\* set_attr("human.trust", ..., meaning=ev) for every event of evs in turn.
RECURSIVE HSeedEvents(_, _)
HSeedEvents(H, evs) ==
    IF evs = <<>> THEN H
    ELSE HSeedEvents(Hset_attr("syn3", H, Path("human", "trust"), Interval(10, 20),
                               "event", evs[1]).wb,
                     Tail(evs))

\* fork_metaphors from human.trust to emergence.trust.
HForkTrust ==
    \E context \in {<<"betrayal">>, <<"repair">>, <<>>} :
        /\ budget > 0
        /\ LET r == fork_metaphors(himpl, hy, Path("human", "trust"),
                                   Path("emergence", "trust"), context)
           IN /\ HCalled("fork_metaphors", r.ok,
                         [path |-> Path("emergence", "trust"),
                          source |-> Path("human", "trust"), context |-> context],
                         r.out)
              /\ hy' = r.wb

InitContext ==
    /\ himpl = "syn3"
    /\ hy \in {HSeedEvents(HSeedBranch("syn3", None), evs) :
                  evs \in UNION {[1..n -> {"Betrayal", "Repair"}] : n \in 0..MaxEvents}}
    /\ last = NoCall
    /\ budget = MaxContextOps
    /\ impl = "s0"
    /\ mem = NewMem(EmptyWB)

NextContext == HForkTrust \/ HContextualCollapse \/ HSetAttrEvent

SpecContext == InitContext /\ [][NextContext]_vars

-----------------------------------------------------------------------------
(* The coffee chain of the demos.  Levels are counted in tenths, beta in   *)
(* tenths, so a level one edge further down the chain is counted in units  *)
(* ten times finer: 0.7 is 7, 0.42 is 42, 0.294 is 294.                    *)

linear_cause ==
    [name |-> "linear_cause",
     node_patterns |-> <<[type |-> "Factor", var |-> "x", where |-> NoWhere],
                         [type |-> "Factor", var |-> "y", where |-> NoWhere]>>,
     edge_patterns |-> <<[type |-> "causes", var |-> "e", where |-> NoWhere, from |-> "x",
                          to |-> "y"]>>,
     actions |-> <<[target |-> Path("{y}", "level"), strength |-> 2,
                    kind |-> "ensure_constraint",
                    expr |-> MulOf(Path("{x}", "level"), Path("{e}", "beta")),
                    note |-> "linear_cause"]>>]

SeedCoffee ==
    LET W1 == create_node(EmptyWB, "Factor", "coffee", [level |-> Interval(7, 9)], "u").wb
        W2 == create_node(W1, "Factor", "alertness", [level |-> Unknown], "u").wb
        W3 == create_node(W2, "Factor", "productivity", [level |-> Unknown], "u").wb
        W4 == create_edge(W3, "causes", "coffee", "alertness", NoId, [beta |-> Num(6)]).wb
        W5 == create_edge(W4, "causes", "alertness", "productivity", NoId,
                          [beta |-> Num(7)]).wb
    IN Define(W5, linear_cause)

\* until_delta = 1e-9: below every change a tick can make, and not zero.
\* UpdateDelta of a change is at least 2.
TinyDelta == 1

InitCoffee ==
    /\ impl \in {"s0", "s3"}
    /\ mem = NewMem(SeedCoffee)
    /\ last = NoCall
    /\ budget = MaxCoffeeOps
    /\ hy = EmptyHWB
    /\ himpl = "syn2"

NextCoffee ==
    \/ RunRules("base", {Nothing, Some(1)})
    \/ PropagateOnce("base")
    \/ Simulate("base", {<<5, TinyDelta, Nothing>>, <<5, 0, Nothing>>})
    \/ SetAttr("base", {Path("coffee", "level")}, {Interval(3, 5)})
    \/ QueryAttr("base", {Path("productivity", "level")})

SpecCoffee == InitCoffee /\ [][NextCoffee]_vars

-----------------------------------------------------------------------------
(* blend on its own: one attribute n1.a and one constraint on it.  The     *)
(* old value, the target value and the strength are drawn at the start;    *)
(* an absent attribute reads Unknown, as attrs.get(key, Unknown()) does.   *)

BlendNums == {Num(2 * i) : i \in 0..MaxBlendVal}
BlendIntervals == {Interval(2 * i, 2 * j) : i, j \in 0..MaxBlendVal}
BlendTargets == BlendNums \cup BlendIntervals \cup {Text}

SeedBlend(im, attrs, target, strength) ==
    LET W1 == create_node(EmptyWB, "F", "n1", attrs, "u").wb
    IN assert_constraint(im, W1, Path("n1", "a"), Lit(target), strength, "", "c1", "u").wb

\* The operands blend gets from propagate_once in this workbench.
BlendOperands(W) ==
    [old |-> AttrGet(Get(W.nodes, "n1").attrs, "a", Unknown),
     target |-> safe_eval(W, W.constraints[1].expr),
     strength |-> W.constraints[1].strength]

Blend ==
    LET a == BlendOperands(Read(mem, "base"))
        b == blend(a.old, a.target, a.strength)
    IN /\ Called("blend", "base", b.ok, a, [v |-> b.v])
       /\ UNCHANGED mem

BlendSyn1 ==
    LET a == BlendOperands(Read(mem, "base"))
        b == blend_syn1(a.old, a.target, a.strength)
    IN /\ Called("blend_syn1", "base", b.ok, a, [v |-> b.v])
       /\ UNCHANGED mem

\* One propagate_once; the operands it hands to blend are kept in the record
\* of the call, with what n1.a reads afterwards.
Tick ==
    LET a == BlendOperands(Read(mem, "base"))
        r == propagate_once(Read(mem, "base"))
    IN Apply("propagate_once", "base", r, a,
             [value |-> AttrGet(Get(r.wb.nodes, "n1").attrs, "a", Unknown), count |-> r.count,
              delta |-> r.delta])

InitBlend ==
    /\ impl \in {"s0", "s3"}
    /\ \E attrs \in {NoAttrs} \cup {[a |-> v] : v \in BlendTargets \cup {Unknown}},
          target \in BlendTargets, strength \in {0, 1, 2} :
            mem = NewMem(SeedBlend(impl, attrs, target, strength))
    /\ last = NoCall
    /\ budget = MaxBlendOps
    /\ hy = EmptyHWB
    /\ himpl = "syn2"

NextBlend == Blend \/ BlendSyn1 \/ Tick

SpecBlend == InitBlend /\ [][NextBlend]_vars

-----------------------------------------------------------------------------
(* Intervals under construction, multiplication and blend, with strengths  *)
(* -0.5, 0.5, 1.5 and 2 (the code does not restrict them to [0, 1]).       *)

\* Interval(lo, hi) for bounds given in either order.
GivenIntervals == {Interval(2 * i, 2 * j) : i, j \in -1..MaxBound}

SeedInterval(im, a, b, expr, strength) ==
    LET W1 == create_node(EmptyWB, "F", "n1", [a |-> a, b |-> b], "u").wb
    IN assert_constraint(im, W1, Path("n1", "a"), expr, strength, "", "c1", "u").wb

InitInterval ==
    /\ impl \in {"s0", "s3"}
    /\ \E a \in {Interval(0, 4), Interval(2, 2), Num(2)},
          b \in {Num(-2), Interval(-2, 2)},
          expr \in {Lit(Interval(2, 2)), Lit(Interval(4, 0)), Lit(Num(0)),
                    MulOf(Path("n1", "a"), Path("n1", "b"))},
          strength \in {-1, 1, 3, 4} :
            mem = NewMem(SeedInterval(impl, a, b, expr, strength))
    /\ last = NoCall
    /\ budget = MaxIntervalOps
    /\ hy = EmptyHWB
    /\ himpl = "syn2"

NextInterval ==
    \/ Tick
    \/ SetAttr("base", {Path("n1", "a")}, GivenIntervals)

SpecInterval == InitInterval /\ [][NextInterval]_vars

-----------------------------------------------------------------------------
(* Ticks and read-only queries around a fixpoint: a chain that settles in  *)
(* one tick, two constraints that never settle, one constraint of strength *)
(* 1/2 that settles in steps; each before and after a first tick.          *)

FixSeeds(im) ==
    {run_rules(im, SeedChain, Nothing).wb, SeedOsc(im),
     SeedBlend(im, [a |-> Num(2)], Num(6), 1)}

InitFix ==
    /\ impl \in {"s0", "s3"}
    /\ mem \in {NewMem(W) : W \in FixSeeds(impl)}
           \cup {NewMem(propagate_once(W).wb) : W \in FixSeeds(impl)}
    /\ last = NoCall
    /\ budget = MaxFixOps
    /\ hy = EmptyHWB
    /\ himpl = "syn2"

NextFix ==
    \/ PropagateOnce("base")
    \/ Simulate("base", {<<2, 0, Nothing>>})
    \/ QueryAttr("base", {Path("n1", "a")})
    \/ Explain("base", {Path("n1", "a")})
    \/ Diff("base")
    \/ SetAttr("base", {Path("n1", "a")}, {Num(8)})

SpecFix == InitFix /\ [][NextFix]_vars

-----------------------------------------------------------------------------
(* Chains of constraints of strength 1, each level the level before it     *)
(* times the beta of the edge between them, stored in any order.  The      *)
(* chain of Demo 1 is the first two links.                                 *)

ChainNames == <<"coffee", "alertness", "productivity", "output">>
ChainBetas == <<6, 7, 10>>

RECURSIVE ChainNodes(_, _)
ChainNodes(W, i) ==
    IF i > Len(ChainNames) THEN W
    ELSE ChainNodes(create_node(W, "Factor", ChainNames[i],
                                [level |-> IF i = 1 THEN Interval(7, 9) ELSE Unknown],
                                "u").wb,
                    i + 1)

RECURSIVE ChainEdges(_, _)
ChainEdges(W, i) ==
    IF i > Len(ChainBetas) THEN W
    ELSE ChainEdges(create_edge(W, "causes", ChainNames[i], ChainNames[i + 1], NoId,
                                [beta |-> Num(ChainBetas[i])]).wb,
                    i + 1)

\* The constraint of link i, as the rule of Demo 1 writes it.
ChainExpr(i) ==
    MulOf(Path(ChainNames[i], "level"),
          Path(ChainNames[i] \o "->" \o ChainNames[i + 1] \o ":causes", "beta"))

RECURSIVE ChainConstraints(_, _, _)
ChainConstraints(im, W, order) ==
    IF order = <<>> THEN W
    ELSE ChainConstraints(
            im,
            assert_constraint(im, W, Path(ChainNames[order[1] + 1], "level"),
                              ChainExpr(order[1]), 2, "linear_cause",
                              "c" \o IntStr(order[1]), "u").wb,
            Tail(order))

\* The orders in which the constraints of the first n links can be stored.
ChainOrders(n) == {o \in [1..n -> 1..n] : \A i, j \in 1..n : o[i] = o[j] => i = j}

InitChain ==
    /\ impl \in {"s0", "s3"}
    /\ \E n \in 2..Len(ChainBetas) : \E order \in ChainOrders(n) :
          mem = NewMem(ChainConstraints(impl, ChainEdges(ChainNodes(EmptyWB, 1), 1), order))
    /\ last = NoCall
    /\ budget = MaxChainOps
    /\ hy = EmptyHWB
    /\ himpl = "syn2"

NextChain ==
    \/ SetAttr("base", {Path("coffee", "level")}, {Interval(3, 5), Interval(7, 9)})
    \/ PropagateOnce("base")
    \/ Simulate("base", {<<5, TinyDelta, Nothing>>})

SpecChain == InitChain /\ [][NextChain]_vars

-----------------------------------------------------------------------------
(* run_rules on graphs of three nodes and up to MaxRuleEdges causes edges, *)
(* with one or both of the rules defined; two edges may enter one node.    *)

CausesEdgeArgs ==
    {[type |-> "causes", from_id |-> a, to_id |-> b] :
        a \in {"n1", "n2", "n3"}, b \in {"n1", "n2", "n3"}}

RuleSets == {<<LinearCause>>, <<TwoActions>>, <<LinearCause, TwoActions>>}

RECURSIVE DefineAll(_, _, _)
DefineAll(W, rules, i) ==
    IF i > Len(rules) THEN W ELSE DefineAll(Define(W, rules[i]), rules, i + 1)

InitRules ==
    /\ impl \in {"s0", "s3"}
    /\ \E n \in 0..MaxRuleEdges : \E es \in [1..n -> CausesEdgeArgs] :
          \E rules \in RuleSets :
             mem = NewMem(DefineAll(GraphOf("F", es), rules, 1))
    /\ last = NoCall
    /\ budget = MaxRuleOps
    /\ hy = EmptyHWB
    /\ himpl = "syn2"

NextRules ==
    \/ RunRules("base", {Nothing, Some(0), Some(1), Some(2), Some(3)})
    \/ DefineRule("base", {LinearCause, TwoActions})

SpecRules == InitRules /\ [][NextRules]_vars

-----------------------------------------------------------------------------
(* snapshot and revert (s0 only) around writes: revert is called with the  *)
(* versions snapshot() has returned and with the keys of self.snapshots.   *)

\* The versions the snapshot() calls of W have returned.
ReturnedVersions(W) ==
    {W.provenance[i].version : i \in {j \in DOMAIN W.provenance :
                                         W.provenance[j].op = "snapshot"}}

RevertReturned(h) ==
    /\ budget > 0
    /\ Live(mem, h)
    /\ \E version \in ReturnedVersions(Read(mem, h)) \cup DOMAIN Read(mem, h).snapshots :
        LET r == revert(Read(mem, h), version)
        IN Apply("revert", h, r, [version |-> version], <<>>)

InitRound ==
    /\ impl = "s0"
    /\ mem \in {NewMem(W) : W \in Seeds(impl)}
    /\ last = NoCall
    /\ budget = MaxRoundOps
    /\ hy = EmptyHWB
    /\ himpl = "syn2"

NextRound ==
    \/ Snapshot("base")
    \/ SetAttr("base", {Path("n1", "a")}, {Num(8)})
    \/ CreateNode("base", {"n3"})
    \/ RemoveConstraint("base")
    \/ RevertReturned("base")

SpecRound == InitRound /\ [][NextRound]_vars

-----------------------------------------------------------------------------
(* Nodes and edges created with given ids, read and written by path; an    *)
(* explicit edge id may be the id of a node, and a node id that of an edge. *)

PathArgs ==
    {Path("n1", "a"), Path("n1", "b"), Path("e1", "b"), Path("n1->n2:causes", "b")}

InitPath ==
    /\ impl \in {"s0", "s3"}
    /\ mem \in {NewMem(W) : W \in Seeds(impl)}
    /\ last = NoCall
    /\ budget = MaxPathOps
    /\ hy = EmptyHWB
    /\ himpl = "syn2"

NextPath ==
    \/ CreateNode("base", {"n1", "n2", "e1"})
    \/ CreateEdge("base", {"n1"}, {NoId, "n1", "e1"})
    \/ SetAttr("base", PathArgs, {Num(8)})
    \/ Val("base", PathArgs)

SpecPath == InitPath /\ [][NextPath]_vars

-----------------------------------------------------------------------------
(* Properties.                                                             *)

MutatingOps ==
    {"create_node", "create_edge", "set_attr", "assert_constraint", "upsert_constraint",
     "remove_constraint", "define_rule", "run_rules", "propagate_once", "simulate"}

\* C1: every successful call of a public mutating operation (remove_constraint
\* counted only when it removed an existing id) increases version by exactly 1.
C1_VersionBumpedOnce ==
    [][(/\ budget' # budget
        /\ last'.op \in MutatingOps
        /\ last'.ok
        /\ (last'.op = "remove_constraint" => last'.ret.removed))
       => mem'.ver[last'.h] = mem.ver[last'.h] + 1]_vars

Other(h) == IF h = "base" THEN "f" ELSE "base"

\* C2: fork() gives f the contents and the version of base and leaves base as
\* it was; afterwards a call on one of base and f leaves nodes, edges,
\* attribute values, constraints, rules, provenance and version of the other
\* unchanged.
C2_ForkIndependence ==
    [][budget' # budget =>
        IF last'.op = "fork"
        THEN /\ Read(mem', "f") = Read(mem, "base")
             /\ Read(mem', "base") = Read(mem, "base")
        ELSE Live(mem, Other(last'.h)) =>
                Read(mem', Other(last'.h)) = Read(mem, Other(last'.h))]_vars

\* A rule run on the fork added a constraint the base does not have.
C2_Witness ==
    /\ Live(mem, "f")
    /\ last.op = "run_rules" /\ last.h = "f" /\ last.ok /\ last.ret.applied > 0
    /\ Len(Read(mem, "f").constraints) > Len(Read(mem, "base").constraints)

\* C3: compare_scenarios leaves the workbench it is called on (and every
\* other live workbench) exactly as it was, whatever the scenarios do.
C3_CompareLeavesBase ==
    [][(budget' # budget /\ last'.op = "compare_scenarios") => mem' = mem]_vars

\* A scenario with a failing and an unknown op ran to its row, and on its
\* fork n1.a took a value the base does not hold.
C3_Witness ==
    /\ last.op = "compare_scenarios" /\ last.ok
    /\ \E i \in DOMAIN last.ret.rows :
          /\ last.ret.rows[i].scenario = "failing"
          /\ last.ret.rows[i].ops_since_base > 0
          /\ last.ret.rows[i].vals[1] = Num(8)
    /\ val(Read(mem, last.h), Path("n1", "a")) # Num(8)

OnlyCalls(jsonl) == \A i \in DOMAIN jsonl : jsonl[i].kind = "call"

\* C4: in a batch of well-formed lines the records come in line order, a
\* line naming an op that does not exist gets ok = false, and the batch
\* valid, invalid, valid yields true, false, true with the last op executed.
C4_BatchIsolation ==
    (last.op = "run_commands" /\ OnlyCalls(last.args.jsonl)) =>
        /\ last.ok
        /\ Len(last.ret.outputs) = Len(last.args.jsonl)
        /\ \A i \in DOMAIN last.args.jsonl :
              /\ last.ret.outputs[i].op = last.args.jsonl[i].op
              /\ ~HasAttr(impl, last.args.jsonl[i].op) => last.ret.outputs[i].ok = "false"
        /\ last.args.jsonl = <<CmdSet, CmdUnknown, CmdCreate>> =>
              /\ [i \in 1 .. 3 |-> last.ret.outputs[i].ok] = <<"true", "false", "true">>
              /\ Has(Read(mem, "base").nodes, "n3")

NonBlank(jsonl) == Len(SelectSeq(jsonl, LAMBDA c : c.kind # "blank"))

\* C5: run_commands returns normally for every batch, with one record per
\* non-blank line.
C5_MalformedNeverAborts ==
    last.op = "run_commands" =>
        /\ last.ok
        /\ Len(last.ret.outputs) = NonBlank(last.args.jsonl)

WriteOps == {"create_node", "create_edge", "set_attr", "assert_constraint"}

\* C6: a create_node, create_edge, set_attr or assert_constraint call that
\* fails leaves nodes, edges, attribute values, constraints, version and
\* provenance as they were.
C6_FailedWriteLeavesState ==
    [][(budget' # budget /\ last'.op \in WriteOps /\ ~last'.ok) => mem' = mem]_vars

\* A create_edge naming an absent endpoint failed on a workbench that holds
\* nodes and an edge.
C6_Witness ==
    /\ last.op = "create_edge" /\ ~last.ok /\ last.args.from_id = "zz"
    /\ Read(mem, "base").edges # <<>>
    /\ Read(mem, "base").version > 0

\* C7: creating a node, an edge or a constraint under an explicitly given id
\* that an entity of the same kind already has fails, and the entities of
\* that kind stay as they were.
C7_TakenIdRefused ==
    [][budget' # budget =>
        /\ (last'.op = "create_node" /\ Has(Read(mem, last'.h).nodes, last'.args.id))
              => (~last'.ok /\ Read(mem', last'.h).nodes = Read(mem, last'.h).nodes)
        /\ (/\ last'.op = "create_edge" /\ last'.args.id # NoId
            /\ Has(Read(mem, last'.h).edges, last'.args.id))
              => (~last'.ok /\ Read(mem', last'.h).edges = Read(mem, last'.h).edges)
        /\ (/\ last'.op = "assert_constraint" /\ last'.args.id # NoId
            /\ Has(Read(mem, last'.h).constraints, last'.args.id))
              => (/\ ~last'.ok
                  /\ Read(mem', last'.h).constraints = Read(mem, last'.h).constraints)]_vars

\* The value a lenient read of the hybrid workbench has to give.
HNoValue(H, path) ==
    \/ ~path.sep
    \/ ~Has(H.nodes, path.ent)
    \/ AttrGet(Get(H.nodes, path.ent).attrs, path.key, Unknown).k = "unknown"

\* C8: val(path) of the hybrid workbenches returns normally for every path,
\* with the no-value result when the entity or the attribute is absent, the
\* attribute holds Unknown, or the path has no separator.
C8_ReadsNeverRaise ==
    (last.op = "val" /\ last.h = "hy") =>
        /\ last.ok
        /\ HNoValue(hy, last.args.path) => last.ret.value = None

\* C9: propagate_once and simulate return normally on every graph state and
\* every constraint set.
C9_TickNeverRaises == last.op \in {"propagate_once", "simulate"} => last.ok

\* The larger of ticks and max_steps; ticks where max_steps is not given.
SimBudget(a) ==
    IF IsSome(a.max_steps) THEN Max2(a.ticks, The(a.max_steps)) ELSE a.ticks

\* The passes of a run in which every tick updates above the threshold.
SimExact(a) ==
    IF IsSome(a.max_steps) /\ The(a.max_steps) # 0 THEN The(a.max_steps) ELSE a.ticks

\* C10: one simulate call makes at most max(ticks, max_steps) passes of
\* propagate_once (at most ticks where there is no max_steps); when every
\* pass updates with delta above the threshold it makes exactly max_steps
\* passes if max_steps is given and not 0, exactly ticks otherwise.
C10_SimulateBounded ==
    last.op = "simulate" =>
        /\ last.ret.passes <= SimBudget(last.args)
        /\ (last.ok /\ last.ret.busy) => last.ret.passes = SimExact(last.args)

\* C10 as stated: such a run makes exactly the budget, the larger of ticks
\* and max_steps.
C10_SimulateExhaustsBudget ==
    last.op = "simulate" =>
        /\ last.ret.passes <= SimBudget(last.args)
        /\ (last.ok /\ last.ret.busy) => last.ret.passes = SimBudget(last.args)

\* Two constraints fought over n1.a for all three ticks of the budget.
C10_Witness ==
    /\ last.op = "simulate" /\ last.ok /\ last.ret.busy
    /\ last.args.ticks = 3 /\ last.args.max_steps = Nothing
    /\ last.ret.passes = 3 /\ last.ret.total_updates = 6

-----------------------------------------------------------------------------
\* C11: a run_rules call that directly follows another one, with the same
\* limit or after an unlimited run, leaves the constraints exactly as the
\* first call left them: the same ids in the same places, each with the same
\* target, expr and strength, and none added.
C11_RunRulesIdempotent ==
    [][(/\ last.op = "run_rules" /\ last.ok
        /\ last'.op = "run_rules" /\ budget' < budget
        /\ (last.args.limit = Nothing \/ last'.args.limit = last.args.limit))
       => Read(mem', "base").constraints = Read(mem, "base").constraints]_vars

\* Two unlimited run_rules calls in a row on the coffee chain, each applying
\* both matches.
C11_Witness ==
    LET W == Read(mem, "base")
        n == Len(W.provenance)
    IN /\ last.op = "run_rules" /\ last.args.limit = Nothing /\ last.ret.applied = 2
       /\ n >= 6
       /\ W.provenance[n - 3].op = "run_rules"
       /\ W.provenance[n - 2].op = "upsert_constraint"
       /\ W.provenance[n - 1].op = "upsert_constraint"
       /\ Ids(W.constraints) = {"r:linear_cause:alertness.level",
                                "r:linear_cause:productivity.level"}
       /\ Len(W.constraints) = 2

-----------------------------------------------------------------------------
\* C12: diff(v) returns the provenance entries whose version is greater than
\* v and no other, in the order of the log; for 0 <= v <= version (the
\* version when diff is called) it returns version - v entries, the entries
\* v+1, v+2, ... of the log.
C12_DiffSinceVersion ==
    (last.op = "diff" /\ last.ok) =>
        LET W == Read(mem, last.h)
            v == last.args.since_version
            version == W.version - 1
            diffs == last.ret.diffs
        IN /\ \A i \in DOMAIN diffs : diffs[i].version > v
           /\ \A k \in 1..version :
                 W.provenance[k].version > v =>
                     \E i \in DOMAIN diffs : diffs[i] = W.provenance[k]
           /\ \A i, j \in DOMAIN diffs : i < j => diffs[i].version < diffs[j].version
           /\ (0 <= v /\ v <= version) =>
                 /\ Len(diffs) = version - v
                 /\ \A i \in DOMAIN diffs : diffs[i] = W.provenance[v + i]

\* diff(1) on a log of at least four entries returns all but the first.
C12_Witness ==
    /\ last.op = "diff" /\ last.ok
    /\ last.args.since_version = 1
    /\ Len(last.ret.diffs) >= 3
    /\ last.ret.diffs[1].version = 2

-----------------------------------------------------------------------------
LogMatchesVersion(W) ==
    /\ Len(W.provenance) = W.version
    /\ \A k \in DOMAIN W.provenance : W.provenance[k].version = k

LogKept(W, W1) ==
    /\ Len(W1.provenance) >= Len(W.provenance)
    /\ \A k \in DOMAIN W.provenance :
          /\ W1.provenance[k].op = W.provenance[k].op
          /\ W1.provenance[k].version = W.provenance[k].version

\* C19: in every reachable state the provenance log has exactly `version`
\* entries and the k-th entry carries version k; and no call, returning or
\* raising, snapshot and revert included, removes or reorders an entry that
\* is in the log.
C19_LogAppendOnly ==
    /\ [](LogMatchesVersion(Read(mem, "base")))
    /\ [][LogKept(Read(mem, "base"), Read(mem', "base"))]_vars

\* A revert to a snapshot taken earlier has returned.
C19_Witness ==
    /\ last.op = "revert" /\ last.ok
    /\ Read(mem, "base").version >= 2
    /\ Len(Read(mem, "base").provenance) = Read(mem, "base").version
    /\ \E k \in DOMAIN Read(mem, "base").provenance :
          Read(mem, "base").provenance[k].op = "snapshot"

-----------------------------------------------------------------------------
\* What reading a provenance entry gives: its op, its version, and the attrs
\* in its args and in its result.
EntryReads(pe) ==
    [version |-> pe.version, op |-> pe.op,
     args |-> IF pe.args_shared THEN pe.attrs ELSE NoAttrs,
     result |-> pe.attrs]

\* C20: a provenance entry is immutable once appended: after any later call
\* every entry of the log reads (op, args, version, result) as it read when
\* it was appended.
C20_EntryImmutable ==
    [][\A k \in DOMAIN Read(mem, "base").provenance :
          EntryReads(Read(mem', "base").provenance[k])
              = EntryReads(Read(mem, "base").provenance[k])]_vars

-----------------------------------------------------------------------------
Known(v) == v.k \in {"num", "iv"}

\* C13: for old and target each a number or an Interval, blend at strength 0
\* returns old and blend at strength 1 returns target; and a tick that
\* applies a strength-0 constraint to a known attribute reports no update
\* and leaves the attribute as it was.
C13_BlendEndpoints ==
    /\ (last.op = "blend" /\ Known(last.args.old) /\ Known(last.args.target)) =>
          /\ last.ok
          /\ last.args.strength = 0 => last.ret.v = last.args.old
          /\ last.args.strength = 2 => last.ret.v = last.args.target
    /\ (/\ last.op = "propagate_once" /\ Known(last.args.old)
        /\ Known(last.args.target) /\ last.args.strength = 0) =>
          /\ last.ok
          /\ last.ret.count = 0
          /\ last.ret.value = last.args.old

\* C14: blend of an Unknown old value returns the target, whatever the
\* target and the strength (0, 1/2 and 1), in sketch-gpt5-0.py / -3.py and
\* in gpt5-synthesis-1.py; and a tick whose constraint evaluates and whose
\* attribute is Unknown or absent reports one update and writes the value of
\* the expression itself.
C14_UnknownAdoption ==
    /\ (last.op \in {"blend", "blend_syn1"} /\ last.args.old = Unknown) =>
          last.ok /\ last.ret.v = last.args.target
    /\ (last.op = "propagate_once" /\ last.args.old = Unknown) =>
          last.ok /\ last.ret.count = 1 /\ last.ret.value = last.args.target

\* A tick at strength 1/2 has written [2, 4] to an attribute the node did
\* not have.
C14_Witness ==
    /\ last.op = "propagate_once" /\ last.ok
    /\ last.args.old = Unknown /\ last.args.strength = 1
    /\ last.args.target = Interval(2, 4)
    /\ Get(Read(mem, "base").nodes, "n1").attrs = [a |-> Interval(2, 4)]
    /\ Read(mem, "base").provenance[1].attrs = [a |-> Interval(2, 4)]

-----------------------------------------------------------------------------
\* The log of the coffee chain reads: the six calls that build it, one
\* unlimited run_rules (two upserts), and from there only ticks, simulate
\* calls and queries.
CoffeeChainRun(W) ==
    /\ Len(W.provenance) >= 9
    /\ W.provenance[7].op = "upsert_constraint"
    /\ W.provenance[8].op = "upsert_constraint"
    /\ W.provenance[9].op = "run_rules"
    /\ \A k \in 10..Len(W.provenance) :
          W.provenance[k].op \in {"propagate_once", "simulate", "query_attr"}

TicksSinceRules(W) ==
    Cardinality({k \in 10..Len(W.provenance) : W.provenance[k].op = "propagate_once"})

CoffeeFinal(W) ==
    /\ val(W, Path("alertness", "level")) = Interval(42, 54)
    /\ val(W, Path("productivity", "level")) = Interval(294, 378)

\* C15: on the coffee chain, run_rules followed by
\* simulate(ticks=5, until_delta=1e-9) ends with alertness.level = [0.42, 0.54]
\* and productivity.level = [0.294, 0.378]; both values are in place once
\* two ticks have run; and a tick or a simulate call that starts with them
\* in place reports no update and leaves them in place.
C15_CoffeeConverges ==
    /\ [](CoffeeChainRun(Read(mem, "base")) =>
            /\ (last.op = "simulate" /\ last.args.ticks = 5
                    /\ last.args.until_delta = TinyDelta)
                 => last.ok /\ last.ret.passes <= 5 /\ CoffeeFinal(Read(mem, "base"))
            /\ TicksSinceRules(Read(mem, "base")) >= 2 => CoffeeFinal(Read(mem, "base")))
    /\ [][(/\ CoffeeChainRun(Read(mem, "base")) /\ CoffeeFinal(Read(mem, "base"))
            /\ budget' < budget
            /\ last'.op \in {"propagate_once", "simulate"})
           => /\ last'.ok
              /\ last'.op = "propagate_once" => last'.ret.count = 0
              /\ last'.op = "simulate" => last'.ret.total_updates = 0
              /\ CoffeeFinal(Read(mem', "base"))]_vars

\* run_rules and then simulate(5, 1e-9): two passes, two updates, both in
\* the first pass, and the two levels at their final values.
C15_Witness ==
    /\ last.op = "simulate" /\ last.ok
    /\ last.args.ticks = 5 /\ last.args.until_delta = TinyDelta
    /\ CoffeeChainRun(Read(mem, "base"))
    /\ Read(mem, "base").version = 12
    /\ last.ret.passes = 2 /\ last.ret.total_updates = 2
    /\ CoffeeFinal(Read(mem, "base"))

-----------------------------------------------------------------------------
(* Branch hypotheses and collapse. *)

\* The candidates of the attribute a call was about, before or after it.
CandidatesAt(H, path) == HCandidates(Get(H.nodes, path.ent), path.key)

\* C16: a call of apply_metaphor_fork / fork_metaphors that returns appends
\* one candidate per transform of the context to the candidate list of the
\* target attribute and leaves the value val(target_path) reads as it was.
C16_ForkNeverCommits ==
    [][(last'.op = "fork_metaphors" /\ last'.ok) =>
          /\ Len(last'.ret) = Len(BranchTable(last'.args.context))
          /\ CandidatesAt(hy', last'.args.path).ok
          /\ CandidatesAt(hy', last'.args.path).list
                = CandidatesAt(hy, last'.args.path).list \o last'.ret
          /\ Hval(himpl, hy', last'.args.path).v
                = Hval(himpl, hy, last'.args.path).v]_vars

\* C17: a collapse that finds a candidate appends one history record to the
\* target node, with source collapse:<policy>, from the value committed
\* before and to the chosen value, sets the attribute to the chosen value
\* and, where there is a version, bumps it once; a collapse that finds no
\* candidate changes nothing.
C17_CollapseIsAuditedSet ==
    [][(last'.op = "collapse" /\ last'.ok) =>
          IF last'.ret = Nothing THEN hy' = hy
          ELSE LET path == last'.args.path
                   n == Get(hy.nodes, path.ent)
                   n1 == Get(hy'.nodes, path.ent)
               IN /\ Len(n1.history) = Len(n.history) + 1
                  /\ SubSeq(n1.history, 1, Len(n.history)) = n.history
                  /\ n1.history[Len(n1.history)].source
                        = "collapse:" \o last'.args.policy
                  /\ n1.history[Len(n1.history)].from = Hval(himpl, hy, path).v
                  /\ n1.history[Len(n1.history)].to = The(last'.ret).value
                  /\ Hval(himpl, hy', path).v = The(last'.ret).value
                  /\ himpl = "syn2" => hy'.version = hy.version + 1]_vars

\* C18: collapse_branches with method max_conf commits the value of the
\* candidate of highest confidence among all recorded for the attribute,
\* the first recorded of them on a tie, and the candidate list after the
\* call is the list before it.
C18_MaxConfidence ==
    [][(/\ last'.op = "collapse" /\ last'.ok
        /\ last'.args.policy = "max_conf" /\ last'.ret # Nothing) =>
          LET path == last'.args.path
              before == CandidatesAt(hy, path).list
          IN /\ \E i \in DOMAIN before :
                    /\ before[i] = The(last'.ret)
                    /\ \A j \in DOMAIN before :
                          /\ before[j].confidence <= before[i].confidence
                          /\ j < i => before[j].confidence < before[i].confidence
             /\ Hval(himpl, hy', path).v = The(last'.ret).value
             /\ CandidatesAt(hy', path).ok
             /\ CandidatesAt(hy', path).list = before]_vars

-----------------------------------------------------------------------------
(* The stop criteria of simulate. *)

\* C21: in a simulate call that returns, no tick but the last one run has a
\* delta less than or equal to until_delta, for every until_delta, 0
\* included.
C21_StopsAtDeltaThreshold ==
    (last.op = "simulate" /\ last.ok) =>
        \A i \in 1..(Len(last.ret.trace) - 1) :
            last.ret.trace[i].delta > last.args.until_delta

\* C22: a simulate call that ends on the test of count == 0 has run two
\* ticks in a row that both reported zero updates, the last two of the
\* call, and no simulate call runs a tick after two such ticks.
C22_TwoZeroTicks ==
    (last.op = "simulate" /\ last.ok) =>
        LET trace == last.ret.trace
            ZeroPair(i) == i >= 2 /\ trace[i].count = 0 /\ trace[i - 1].count = 0
        IN /\ last.ret.why = "count" => ZeroPair(Len(trace))
           /\ \A i \in 1..(Len(trace) - 1) : ~ZeroPair(i)

-----------------------------------------------------------------------------
(* The rule matcher. *)

\* The variable an edge pattern binds: its var, "e<j>" when it has none.
EdgeVar(rule, j) ==
    IF rule.edge_patterns[j].var = NoVar THEN "e" \o IntStr(j - 1)
    ELSE rule.edge_patterns[j].var

\* env binds every edge pattern of the rule to an edge of W whose from_id
\* and to_id are the ids env binds to the pattern's from and to variables.
EndpointConsistent(W, rule, env) ==
    \A j \in DOMAIN rule.edge_patterns :
        LET pat == rule.edge_patterns[j]
        IN /\ EdgeVar(rule, j) \in DOMAIN env
           /\ Has(W.edges, env[EdgeVar(rule, j)])
           /\ pat.from # NoVar =>
                 /\ pat.from \in DOMAIN env
                 /\ Get(W.edges, env[EdgeVar(rule, j)]).from_id = env[pat.from]
           /\ pat.to # NoVar =>
                 /\ pat.to \in DOMAIN env
                 /\ Get(W.edges, env[EdgeVar(rule, j)]).to_id = env[pat.to]

\* C23: every environment the matcher yields is endpoint-consistent, for
\* rules that declare the from/to variables in their node patterns and for
\* rules whose edge patterns are the first to bind them.
C23_EndpointConsistent ==
    last.op = "match_rule" =>
        \A i \in DOMAIN last.ret :
            EndpointConsistent(Read(mem, "base"), last.args.rule, last.ret[i])

\* All consistent bindings of a rule: pairwise distinct node ids that pass
\* the type and where filters for the node variables, and for the edge
\* variables edges that pass the type, where and from/to filters.
ConsistentBindings(W, rule) ==
    LET NodeVars == {rule.node_patterns[i].var : i \in DOMAIN rule.node_patterns}
        EdgeVars == {EdgeVar(rule, j) : j \in DOMAIN rule.edge_patterns}
        NodeEnvs ==
            {ne \in [NodeVars -> {W.nodes[i].id : i \in DOMAIN W.nodes}] :
                /\ \A v, w \in NodeVars : v # w => ne[v] # ne[w]
                /\ \A i \in DOMAIN rule.node_patterns :
                      LET pat == rule.node_patterns[i]
                          n == Get(W.nodes, ne[pat.var])
                      IN /\ pat.type # NoType => n.type = pat.type
                         /\ \A key \in DOMAIN pat.where :
                               key \in DOMAIN n.attrs /\ n.attrs[key] = pat.where[key]}
        EdgeEnvs(ne) ==
            {ee \in [EdgeVars -> {W.edges[i].id : i \in DOMAIN W.edges}] :
                \A j \in DOMAIN rule.edge_patterns :
                    LET pat == rule.edge_patterns[j]
                        e == Get(W.edges, ee[EdgeVar(rule, j)])
                    IN /\ pat.type # NoType => e.type = pat.type
                       /\ pat.from # NoVar => e.from_id = ne[pat.from]
                       /\ pat.to # NoVar => e.to_id = ne[pat.to]}
    IN UNION {{ne @@ ee : ee \in EdgeEnvs(ne)} : ne \in NodeEnvs}

\* C24: for a rule whose edge patterns name declared node variables only,
\* the matcher yields every consistent binding, each once, and nothing else.
C24_AllBindingsOnce ==
    (last.op = "match_rule" /\ last.args.rule \in DeclaredRules) =>
        /\ {last.ret[i] : i \in DOMAIN last.ret}
              = ConsistentBindings(Read(mem, "base"), last.args.rule)
        /\ \A i, j \in DOMAIN last.ret : i # j => last.ret[i] # last.ret[j]

-----------------------------------------------------------------------------
(* Rules never retract. *)

\* The ids of the constraints the rules of W produce on its graph as it is.
MatchedIds(im, W) ==
    UNION {{RuleConstraintId(W.rules[k].id, format(W.rules[k].actions[a].target, env)) :
              a \in DOMAIN W.rules[k].actions,
              env \in Rng(match_rule(im, W, W.rules[k]))} :
           k \in DOMAIN W.rules}

\* The rule-produced constraints of W whose match does not hold any more.
StaleConstraints(im, W) ==
    {W.constraints[i] : i \in {j \in DOMAIN W.constraints :
                                 W.constraints[j].id \notin MatchedIds(im, W)}}

\* C25: run_rules removes no constraint and leaves a constraint whose match
\* holds no more with its target, expr and strength; a later tick still
\* evaluates such a constraint: the target takes the value of the expr on
\* the graph as it is (the strength of the rule is 1.0).
C25_RulesNeverRetract ==
    /\ [][(last'.op = "run_rules" /\ budget' < budget) =>
             /\ Ids(Read(mem, "base").constraints)
                   \subseteq Ids(Read(mem', "base").constraints)
             /\ \A c \in StaleConstraints(impl, Read(mem, "base")) :
                   Get(Read(mem', "base").constraints, c.id) = c]_vars
    /\ [][(last'.op = "propagate_once" /\ budget' < budget) =>
             \A c \in StaleConstraints(impl, Read(mem, "base")) :
                 /\ last'.ok
                 /\ val(Read(mem', "base"), c.target)
                       = safe_eval(Read(mem, "base"), c.expr)]_vars

\* The match is gone (n1.on = 0), n1.a was changed after that, run_rules ran
\* again, and the tick moved n2.a to 3 * n1.a through the constraint.
C25_Witness ==
    /\ last.op = "propagate_once" /\ last.ok /\ last.ret.count = 1
    /\ val(Read(mem, "base"), Path("n1", "on")) = Num(0)
    /\ val(Read(mem, "base"), Path("n1", "a")) = Interval(4, 6)
    /\ val(Read(mem, "base"), Path("n2", "a")) = Interval(12, 18)
    /\ StaleConstraints(impl, Read(mem, "base")) # {}
    /\ \E k \in DOMAIN Read(mem, "base").provenance :
          /\ Read(mem, "base").provenance[k].op = "set_attr"
          /\ \E m \in (k + 1)..Len(Read(mem, "base").provenance) :
                Read(mem, "base").provenance[m].op = "run_rules"

-----------------------------------------------------------------------------
(* Permanence of nodes and edges, and the endpoints of edges. *)

\* C26: no step takes a node id or an edge id out of the store, and only
\* remove_constraint takes a constraint id out of it.
C26_EntitiesPermanent ==
    [][/\ Ids(Read(mem, "base").nodes) \subseteq Ids(Read(mem', "base").nodes)
       /\ Ids(Read(mem, "base").edges) \subseteq Ids(Read(mem', "base").edges)
       /\ ~(Ids(Read(mem, "base").constraints)
               \subseteq Ids(Read(mem', "base").constraints))
             => last'.op = "remove_constraint"]_vars

\* The ids create_edge may give an edge from from_id to to_id of a type: the
\* base id and the base id with a numeric suffix.
FreshIds(from_id, to_id, type) ==
    {from_id \o "->" \o to_id \o ":" \o type} \cup
    {from_id \o "->" \o to_id \o ":" \o type \o "#" \o IntStr(i) : i \in 1..MaxStoreOps}

-----------------------------------------------------------------------------
(* History and guards of the HybridWorkbench of gpt5-synthesis-1.py. *)

\* Every history record of every node of Y is in Y1 at the same place, and
\* no node is gone.
HistoryKept(Y, Y1) ==
    \A i \in DOMAIN Y.nodes :
        /\ i \in DOMAIN Y1.nodes
        /\ Y1.nodes[i].id = Y.nodes[i].id
        /\ Len(Y1.nodes[i].history) >= Len(Y.nodes[i].history)
        /\ SubSeq(Y1.nodes[i].history, 1, Len(Y.nodes[i].history)) = Y.nodes[i].history

\* C28: a set_val that returns, on a path of a node, appends one history
\* record to that node, from the value the attribute had (None when it had
\* none), to the new value, with the given source, and appends the meaning
\* to the node's semantics exactly when one is given; on a path of an edge
\* it sets the attribute and touches no node; and no step removes or
\* changes a history record.
C28_SetValHistory ==
    [][/\ HistoryKept(hy, hy')
       /\ (last'.op = "set_val" /\ last'.ok) =>
            LET path == last'.args.path
            IN IF Has(hy.nodes, path.ent)
               THEN LET n == Get(hy.nodes, path.ent)
                        n1 == Get(hy'.nodes, path.ent)
                        rec == n1.history[Len(n1.history)]
                    IN /\ Len(n1.history) = Len(n.history) + 1
                       /\ rec.path = path
                       /\ rec.from = AttrGet(n.attrs, path.key, None)
                       /\ rec.to = last'.args.value
                       /\ rec.source = last'.args.source
                       /\ n1.attrs[path.key] = last'.args.value
                       /\ n1.semantics = IF last'.args.meaning # ""
                                         THEN Append(n.semantics, last'.args.meaning)
                                         ELSE n.semantics
                       /\ \A i \in DOMAIN hy.nodes :
                             hy.nodes[i].id # path.ent => hy'.nodes[i] = hy.nodes[i]
               ELSE /\ Has(hy.edges, path.ent)
                    /\ Get(hy'.edges, path.ent).attrs[path.key] = last'.args.value
                    /\ hy'.nodes = hy.nodes]_vars

\* emergence.trust was moved by a tick and then set with a meaning: the
\* second record of the node is from the blended value.
C28_Witness ==
    /\ last.op = "set_val" /\ last.ok
    /\ last.args.path = Path("emergence", "trust") /\ last.args.meaning = "Betrayal"
    /\ Len(Get(hy.nodes, "emergence").history) = 2
    /\ Get(hy.nodes, "emergence").history[1].source = "constraint:c1"
    /\ Get(hy.nodes, "emergence").history[2].from
          = Get(hy.nodes, "emergence").history[1].to
    /\ Get(hy.nodes, "emergence").history[2].to = Num(2)
    /\ Get(hy.nodes, "emergence").semantics = <<"Trust flows", "Betrayal">>

\* The guard of c triggers: the watched path holds a number greater than
\* the threshold.
GuardTriggers(Y, c) ==
    /\ c.cautious_on # Nothing
    /\ c.cautious_when_gt # Nothing
    /\ val(Y, The(c.cautious_on)).k = "num"
    /\ val(Y, The(c.cautious_on)).lo > The(c.cautious_when_gt)

\* C29: a tick returns, blends every constraint it applies with strength
\* times cautious_factor when the guard triggers and with the stored
\* strength when it does not (watched value Unknown, absent or not greater
\* than the threshold), and leaves the stored constraints as they were.
C29_GuardDamping ==
    [][(last'.op = "propagate_once" /\ budget' < budget) =>
          /\ last'.ok
          /\ hy'.constraints = hy.constraints
          /\ \A k \in DOMAIN last'.ret.updates :
                LET u == last'.ret.updates[k]
                    c == Get(hy.constraints, u.constraint)
                IN u.applied_strength
                      = IF GuardTriggers(hy, c)
                        THEN (c.strength * c.cautious_factor) \div 2
                        ELSE c.strength]_vars

-----------------------------------------------------------------------------
(* explain *)

\* C30: explain(path) returns, in store order and each once, the constraints
\* of the store whose target is path and no other, each with the value its
\* expression has on the graph as it is and with the value path has; it
\* leaves nodes, edges, constraints and rules as they were and adds one
\* provenance entry.
C30_ExplainLive ==
    [][(last'.op = "explain" /\ budget' < budget) =>
          LET W == Read(mem, "base")
              W1 == Read(mem', "base")
              path == last'.args.path
              out == last'.ret.contributors
          IN /\ last'.ok
             /\ \A c \in Rng(W1.constraints) :
                   c.target = path <=>
                       Cardinality({i \in DOMAIN out : out[i].id = c.id}) = 1
             /\ \A i \in DOMAIN out :
                   /\ Has(W1.constraints, out[i].id)
                   /\ LET c == Get(W1.constraints, out[i].id)
                      IN /\ c.target = path
                         /\ out[i].expr = c.expr /\ out[i].strength = c.strength
                         /\ out[i].expr_value = safe_eval(W1, c.expr)
                         /\ out[i].current = val(W1, path)
             /\ \A i, j \in DOMAIN out :
                   i < j => Idx(W1.constraints, out[i].id) < Idx(W1.constraints, out[j].id)
             /\ W1.nodes = W.nodes /\ W1.edges = W.edges
             /\ W1.constraints = W.constraints /\ W1.rules = W.rules
             /\ W1.snapshots = W.snapshots
             /\ Len(W1.provenance) = Len(W.provenance) + 1
             /\ SubSeq(W1.provenance, 1, Len(W.provenance)) = W.provenance
             /\ W1.provenance[Len(W1.provenance)].op = "explain"]_vars

\* c1 was removed and c3 asserted on another path: explain(n1.a) lists c2
\* alone, with the value n2.a has now.
C30_Witness ==
    /\ last.op = "explain" /\ last.ok
    /\ last.args.path = Path("n1", "a")
    /\ ~Has(Read(mem, "base").constraints, "c1")
    /\ Has(Read(mem, "base").constraints, "c3")
    /\ Get(Read(mem, "base").constraints, "c3").target = Path("n2", "a")
    /\ Len(last.ret.contributors) = 1
    /\ last.ret.contributors[1].id = "c2"
    /\ last.ret.contributors[1].expr_value = Num(4)

-----------------------------------------------------------------------------
(* Collapse policies. *)

\* The sum of the numbers of a sequence.
RECURSIVE SumSeq(_)
SumSeq(xs) == IF xs = <<>> THEN 0 ELSE xs[1] + SumSeq(Tail(xs))

\* C31: collapse_branches with method weighted_mean, on a list whose
\* Interval-valued candidates have a positive total confidence, commits the
\* Interval whose bounds are the confidence-weighted means of the bounds of
\* the Interval-valued candidates alone (mid - width / 2 and
\* mid + width / 2 of the weighted mid and width): what is no Interval adds
\* nothing to the sums and nothing to the total weight.
C31_WeightedMeanOfIntervals ==
    [][(/\ last'.op = "collapse" /\ last'.ok
        /\ last'.args.policy = "weighted_mean" /\ last'.ret # Nothing) =>
          LET ivs == SelectSeq(CandidatesAt(hy, last'.args.path).list,
                               LAMBDA b : b.value.k = "iv")
              total == SumSeq([i \in DOMAIN ivs |-> ivs[i].confidence])
          IN total > 0 =>
                /\ The(last'.ret).value
                      = Interval(SumSeq([i \in DOMAIN ivs |->
                                            ivs[i].value.lo * ivs[i].confidence]) \div total,
                                 SumSeq([i \in DOMAIN ivs |->
                                            ivs[i].value.hi * ivs[i].confidence]) \div total)
                /\ Hval(himpl, hy', last'.args.path).v = The(last'.ret).value]_vars

\* C32: contextual_collapse commits the first candidate whose name is the
\* one preferred for the last four events of the source and target nodes
\* when there is one, and otherwise (no name preferred, or no candidate of
\* that name) the candidate of highest confidence, the first recorded on a
\* tie.
C32_PreferredOrMaxConfidence ==
    [][(/\ last'.op = "collapse" /\ last'.ok
        /\ last'.args.policy = "contextual" /\ last'.ret # Nothing) =>
          LET path == last'.args.path
              before == CandidatesAt(hy, path).list
              preferred == Preferred(recent_features(hy, <<"human", path.ent>>, 4))
              named == {i \in DOMAIN before : before[i].name = preferred}
              chosen == The(last'.ret)
          IN /\ IF preferred # "" /\ named # {}
                THEN \E i \in named : /\ before[i] = chosen
                                      /\ \A j \in named : i <= j
                ELSE \E i \in DOMAIN before :
                        /\ before[i] = chosen
                        /\ \A j \in DOMAIN before :
                              /\ before[j].confidence <= before[i].confidence
                              /\ j < i => before[j].confidence < before[i].confidence
             /\ Hval(himpl, hy', path).v = chosen.value]_vars

\* After betrayal, repair, repair and both forks, the hopeful candidate is
\* committed although the pessimistic one has the higher confidence.
C32_Witness ==
    /\ last.op = "collapse" /\ last.ok /\ last.args.policy = "contextual"
    /\ last.ret # Nothing
    /\ The(last.ret).name = "hopeful"
    /\ \E i \in DOMAIN CandidatesAt(hy, last.args.path).list :
          /\ CandidatesAt(hy, last.args.path).list[i].name = "pessimistic"
          /\ CandidatesAt(hy, last.args.path).list[i].confidence
                > The(last.ret).confidence
    /\ Hval(himpl, hy, last.args.path).v = The(last.ret).value

-----------------------------------------------------------------------------
(* Intervals. *)

\* The attribute values of the nodes and edges of W.
StoredValues(W) ==
    UNION {{e.attrs[key] : key \in DOMAIN e.attrs} : e \in Rng(W.nodes) \cup Rng(W.edges)}

\* C33: every Interval held by an attribute of a node or an edge has
\* lo <= hi, whether it was given with its bounds in either order, came out
\* of a multiplication or out of blend, with strengths in and outside
\* [0, 1]; and what a tick reports as the new value is such an Interval too.
C33_IntervalsWellFormed ==
    /\ \A v \in StoredValues(Read(mem, "base")) : v.k = "iv" => v.lo <= v.hi
    /\ (last.op = "propagate_once" /\ last.ok /\ last.ret.value.k = "iv")
          => last.ret.value.lo <= last.ret.value.hi

\* A blend of strength 2 whose endpoints crossed: (1 - s) * old.lo +
\* s * target.lo is above (1 - s) * old.hi + s * target.hi, and the value
\* stored has them in order.
C33_Witness ==
    /\ last.op = "propagate_once" /\ last.ok /\ last.ret.count = 1
    /\ last.args.strength = 4
    /\ last.args.old.k = "iv" /\ last.args.target.k = "iv"
    /\ Mix(last.args.old.lo, last.args.target.lo, 4)
          > Mix(last.args.old.hi, last.args.target.hi, 4)
    /\ last.ret.value = [k |-> "iv",
                         lo |-> Mix(last.args.old.hi, last.args.target.hi, 4),
                         hi |-> Mix(last.args.old.lo, last.args.target.lo, 4)]
    /\ val(Read(mem, "base"), Path("n1", "a")) = last.ret.value

-----------------------------------------------------------------------------
(* Fixpoints. *)

\* A tick from W would report no update.
AtFixpoint(W) == propagate_once(W).ok /\ propagate_once(W).count = 0

\* C34: once a propagate_once call has reported zero updates, a tick from
\* there reports none either; and from a state where a tick reports none,
\* every tick, simulate call and read-only query leaves every attribute
\* value as it is and the state such a state, every tick reports zero
\* updates and delta 0, every simulate call zero updates in all.
C34_FixpointStable ==
    /\ [][(/\ budget' < budget /\ last'.op = "propagate_once" /\ last'.ok
            /\ last'.ret.count = 0) =>
              /\ last'.ret.delta = 0
              /\ AtFixpoint(Read(mem', "base"))]_vars
    /\ [][(/\ budget' < budget /\ AtFixpoint(Read(mem, "base"))
            /\ last'.op \in {"propagate_once", "simulate", "query_attr", "explain",
                              "diff"}) =>
              /\ last'.ok
              /\ Read(mem', "base").nodes = Read(mem, "base").nodes
              /\ Read(mem', "base").edges = Read(mem, "base").edges
              /\ AtFixpoint(Read(mem', "base"))
              /\ last'.op = "propagate_once" =>
                    last'.ret.count = 0 /\ last'.ret.delta = 0
              /\ last'.op = "simulate" => last'.ret.total_updates = 0]_vars

\* The chain has settled (n2.a holds the value of its constraint), a tick,
\* a query and one more tick ran, and the last tick reported nothing.
C34_Witness ==
    LET W == Read(mem, "base")
        n == Len(W.provenance)
    IN /\ last.op = "propagate_once" /\ last.ok /\ last.ret.count = 0
       /\ n >= 3
       /\ W.provenance[n - 1].op = "query_attr"
       /\ W.provenance[n - 2].op = "propagate_once"
       /\ Has(W.nodes, "n2") /\ Len(W.constraints) = 1
       /\ val(W, Path("n2", "a")) = Interval(6, 12)

-----------------------------------------------------------------------------
(* Chains. *)

\* The ticks run since the source was last set (since the start when it
\* never was): simulate logs each of its ticks.
TicksSinceChange(W) ==
    LET sets == {k \in DOMAIN W.provenance : W.provenance[k].op = "set_attr"}
        from == IF sets = {} THEN 0 ELSE CHOOSE k \in sets : \A j \in sets : j <= k
    IN Cardinality({k \in DOMAIN W.provenance :
                        k > from /\ W.provenance[k].op = "propagate_once"})

\* Every target holds the value of its expression.
ChainSettled(W) ==
    \A c \in Rng(W.constraints) : val(W, c.target) = safe_eval(W, c.expr)

\* C35: on a chain of k constraints of strength 1 stored in any order, once
\* k ticks have run since the source was last set every target holds its
\* expression's value on the current upstream value, and every further
\* tick reports zero updates; and on the chain of Demo 1, simulate(ticks=5,
\* until_delta=1e-9) after coffee.level = [0.3, 0.5] ends with
\* productivity.level = [0.126, 0.21].
C35_ChainSettles ==
    /\ [](TicksSinceChange(Read(mem, "base")) >= Len(Read(mem, "base").constraints)
            => ChainSettled(Read(mem, "base")))
    /\ [][(/\ budget' < budget /\ last'.op = "propagate_once"
            /\ TicksSinceChange(Read(mem, "base"))
                  >= Len(Read(mem, "base").constraints)) =>
              last'.ok /\ last'.ret.count = 0]_vars
    /\ []((/\ last.op = "simulate" /\ last.ok
            /\ val(Read(mem, "base"), Path("coffee", "level")) = Interval(3, 5)) =>
              val(Read(mem, "base"), Path("productivity", "level")) = Interval(126, 210))

\* Three links stored last link first: after coffee.level was set, the
\* third tick still made an update, and the fourth made none.
C35_Witness ==
    LET W == Read(mem, "base")
        n == Len(W.provenance)
    IN /\ Len(W.constraints) = 3 /\ W.constraints[1].id = "c3"
       /\ W.constraints[3].id = "c1"
       /\ n >= 5
       /\ W.provenance[n - 4].op = "set_attr"
       /\ \A k \in (n - 3)..n : W.provenance[k].op = "propagate_once"
       /\ last.op = "propagate_once" /\ last.ret.count = 0
       /\ val(W, Path("coffee", "level")) = Interval(3, 5)
       /\ val(W, Path("output", "level")) = Interval(1260, 2100)

-----------------------------------------------------------------------------
(* The constraints run_rules leaves for the matches of the rules. *)

\* The match env of rule has, for its action a, a constraint in W with the
\* action's target and expr instantiated with env.
Represented(W, rule, env, a) ==
    \E i \in DOMAIN W.constraints :
        /\ W.constraints[i].target = format(rule.actions[a].target, env)
        /\ W.constraints[i].expr = format_expr(rule.actions[a].expr, env)

AllRepresented(im, W) ==
    \A k \in DOMAIN W.rules : \A env \in Rng(match_rule(im, W, W.rules[k])) :
        \A a \in DOMAIN W.rules[k].actions :
            W.rules[k].actions[a].kind = "ensure_constraint"
               => Represented(W, W.rules[k], env, a)

\* C36: after run_rules (no limit) every binding environment of every rule
\* has, for every action of the rule, a constraint in the store whose target
\* and expr are the action's templates instantiated with that environment,
\* also when two matches of one rule instantiate the same target.
C36_EveryMatchRepresented ==
    [][(last'.op = "run_rules" /\ budget' < budget /\ last'.args.limit = Nothing)
          => AllRepresented(impl, Read(mem', "base"))]_vars

\* No two matches of one rule instantiate the same target of an action.
TargetsDistinct(im, W) ==
    \A k \in DOMAIN W.rules :
        \A e1, e2 \in Rng(match_rule(im, W, W.rules[k])) :
            \A a \in DOMAIN W.rules[k].actions :
                format(W.rules[k].actions[a].target, e1)
                   = format(W.rules[k].actions[a].target, e2) => e1 = e2

\* The same statement for the stores in which the matches of a rule have
\* different targets.
C36_DistinctTargetsRepresented ==
    [][(/\ last'.op = "run_rules" /\ budget' < budget /\ last'.args.limit = Nothing
        /\ TargetsDistinct(impl, Read(mem', "base")))
          => AllRepresented(impl, Read(mem', "base"))]_vars

\* Two rules with two matches each ran without a limit and every match has
\* its constraints.
C36_DistinctWitness ==
    /\ last.op = "run_rules" /\ last.ok /\ last.args.limit = Nothing
    /\ last.ret.applied = 6
    /\ TargetsDistinct(impl, Read(mem, "base"))
    /\ AllRepresented(impl, Read(mem, "base"))

\* The upsert_constraint calls made since the log had n entries.
UpsertsSince(W, n) ==
    Cardinality({i \in DOMAIN W.provenance : i > n /\ W.provenance[i].op = "upsert_constraint"})

\* C39: run_rules(limit = L) makes at most L constraint upserts over all
\* rules, also for rules with several actions per match, and the applied
\* count it returns is the number of upserts it made.
C39_LimitBoundsUpserts ==
    [][(last'.op = "run_rules" /\ budget' < budget /\ IsSome(last'.args.limit))
          => /\ UpsertsSince(Read(mem', "base"), Len(Read(mem, "base").provenance))
                   <= The(last'.args.limit)
             /\ last'.ret.applied
                   = UpsertsSince(Read(mem', "base"), Len(Read(mem, "base").provenance))]_vars

\* What holds of the limit: applied counts the upserts, and the upserts
\* exceed the limit by less than the number of actions of one rule.
C39_AppliedCountsUpserts ==
    [][(last'.op = "run_rules" /\ budget' < budget)
          => /\ last'.ret.applied
                   = UpsertsSince(Read(mem', "base"), Len(Read(mem, "base").provenance))
             /\ IsSome(last'.args.limit) =>
                   \/ last'.ret.applied <= The(last'.args.limit)
                   \/ \E k \in DOMAIN Read(mem, "base").rules :
                         last'.ret.applied
                            < The(last'.args.limit) + Len(Read(mem, "base").rules[k].actions)]_vars

-----------------------------------------------------------------------------
(* The round trip of snapshot and revert. *)

\* The step is a successful revert(version) that puts the nodes, edges and
\* constraints of the snapshot taken at version `taken` in place, and the
\* version and the log go on growing.
Restores(version, taken) ==
    /\ last'.ok
    /\ Read(mem', "base").nodes = Read(mem, "base").snapshots[taken].nodes
    /\ Read(mem', "base").edges = Read(mem, "base").snapshots[taken].edges
    /\ Read(mem', "base").constraints = Read(mem, "base").snapshots[taken].constraints
    /\ Read(mem', "base").version > Read(mem, "base").version
    /\ Len(Read(mem', "base").provenance) > Len(Read(mem, "base").provenance)

\* C37: for v the version a snapshot() has returned, revert(v) after any
\* later calls succeeds and puts nodes, edges, attribute values and
\* constraints back to what they were at that snapshot, while the version
\* and the provenance log keep growing.
C37_SnapshotRevertRoundTrip ==
    [][(/\ last'.op = "revert" /\ budget' < budget
        /\ last'.args.version \in ReturnedVersions(Read(mem, "base")))
          => Restores(last'.args.version, last'.args.version - 1)]_vars

\* The round trip with the version the workbench had when snapshot() was
\* called, which is the key the snapshot is stored under.
C37_RevertToVersionBefore ==
    [][(/\ last'.op = "revert" /\ budget' < budget
        /\ last'.args.version + 1 \in ReturnedVersions(Read(mem, "base")))
          => Restores(last'.args.version, last'.args.version)]_vars

\* A write and a new node after the snapshot are undone by the revert.
C37_BeforeWitness ==
    /\ last.op = "revert" /\ last.ok
    /\ last.args.version + 1 \in ReturnedVersions(Read(mem, "base"))
    /\ Read(mem, "base").version >= last.args.version + 4
    /\ ~Has(Read(mem, "base").nodes, "n3")
    /\ \E i \in DOMAIN Read(mem, "base").provenance :
          Read(mem, "base").provenance[i].op = "create_node"
             /\ Read(mem, "base").provenance[i].version > last.args.version + 1

-----------------------------------------------------------------------------
(* Addressing nodes and edges by path. *)

\* What val returns for a stored value: None for Unknown.
Shown(v) == IF v.k = "unknown" THEN None ELSE v

\* val("<id>.a") is the value of a of every node and every edge with that id.
Addressable(W) ==
    /\ \A i \in DOMAIN W.nodes : \A a \in DOMAIN W.nodes[i].attrs :
          val(W, Path(W.nodes[i].id, a)) = Shown(W.nodes[i].attrs[a])
    /\ \A i \in DOMAIN W.edges : \A a \in DOMAIN W.edges[i].attrs :
          val(W, Path(W.edges[i].id, a)) = Shown(W.edges[i].attrs[a])

\* A set_attr("<id>.a", x) step has written x to a of every node and every
\* edge that had the id.
Written(W, W1, target, x) ==
    /\ \A i \in DOMAIN W.nodes : W.nodes[i].id = target.ent =>
          AttrGet(W1.nodes[i].attrs, target.key, Unknown) = x
    /\ \A i \in DOMAIN W.edges : W.edges[i].id = target.ent =>
          AttrGet(W1.edges[i].attrs, target.key, Unknown) = x

\* C38: every node and every edge of the store is addressable by path:
\* val("<id>.a") returns the entity's value of a, and set_attr("<id>.a", x)
\* changes the entity's attribute, also for an edge created with an
\* explicit id that is the id of an existing node.
C38_EntitiesAddressable ==
    /\ []Addressable(Read(mem, "base"))
    /\ [][(last'.op = "set_attr" /\ budget' < budget)
            => Written(Read(mem, "base"), Read(mem', "base"),
                       last'.args.target, last'.args.value)]_vars

\* No id names both a node and an edge.
IdsApart(W) == Ids(W.nodes) \cap Ids(W.edges) = {}

\* The same statement for the stores in which no id names a node and an edge.
C38_AddressableIdsApart ==
    /\ [](IdsApart(Read(mem, "base")) => Addressable(Read(mem, "base")))
    /\ [][(last'.op = "set_attr" /\ budget' < budget /\ IdsApart(Read(mem, "base")))
            => Written(Read(mem, "base"), Read(mem', "base"),
                       last'.args.target, last'.args.value)]_vars

\* An edge created with the explicit id e1 was written through its path.
C38_ApartWitness ==
    /\ last.op = "set_attr" /\ last.ok /\ last.args.target = Path("e1", "b")
    /\ IdsApart(Read(mem, "base"))
    /\ Has(Read(mem, "base").edges, "e1")
    /\ Get(Read(mem, "base").edges, "e1").attrs["b"] = Num(8)

-----------------------------------------------------------------------------
(* The history of a node against its committed attributes. *)

\* Record j is the most recent record of history h for its path.
LastForPath(h, j) == \A k \in DOMAIN h : k > j => h[k].path # h[j].path

\* The `to` of the most recent record of every path with records is the
\* value the node holds for the attribute (None when it holds none); only
\* the records Counts accepts are looked at.
HistoryTracks(H, Counts(_)) ==
    \A i \in DOMAIN H.nodes :
        LET h == SelectSeq(H.nodes[i].history, Counts)
        IN \A j \in DOMAIN h :
              (LastForPath(h, j) /\ h[j].path.sep /\ h[j].path.ent = H.nodes[i].id)
                 => h[j].to = AttrGet(H.nodes[i].attrs, h[j].path.key, None)

AnyRecord(r) == TRUE

\* A record written by a fork: its source is "fork:<branch name>".
ForkRecord(r) ==
    \E name \in {"pessimistic", "resilient", "hopeful", "cautious", "default"} :
        r.source = "fork:" \o name

NotForkRecord(r) == ~ForkRecord(r)

\* C40: in every reachable state of the hybrid workbench, for every node and
\* every attribute path of it with at least one history record, the `to` of
\* the most recent record of the path is the committed value of the
\* attribute, after any sequence of sets, forks and collapses.
C40_HistoryTracksCommitted == HistoryTracks(hy, AnyRecord)

\* The same statement with the records of forks left out of the history.
C40_CommitsTracked == HistoryTracks(hy, NotForkRecord)

\* A collapse has committed a candidate after forks on the path.
C40_CommitsWitness ==
    /\ last.op = "collapse" /\ last.ok /\ IsSome(last.ret)
    /\ last.args.path = Path("emergence", "trust")
    /\ \E j \in DOMAIN Get(hy.nodes, "emergence").history :
          ForkRecord(Get(hy.nodes, "emergence").history[j])
    /\ Get(hy.nodes, "emergence").attrs["trust"] = The(last.ret).value

\* The same statement on the workbench with constraints
\* (gpt5-synthesis-1.py), where set_val and the ticks write the history.
C40_TicksTracked == himpl = "syn1" => HistoryTracks(hy, AnyRecord)

====
